---------------------------- MODULE Spec2Model ----------------------------
(***************************************************************************)
(* A model of the CodeToTeams extension: the authentication module         *)
(* (src/authentication.js), the recipient resolver (src/contactsService.js *)
(* and getRecipients of src/extension.js).                                 *)
(*                                                                         *)
(* Operations run one at a time (one top-level command is driven by the    *)
(* editor at a time); an operation is split into steps where it waits for  *)
(* the outside world, so that the states in between are visible.           *)
(***************************************************************************)
EXTENDS Integers, Sequences, FiniteSets, TLC

\* ------------------------------------------------------------------ bounds
\* Access tokens the identity provider issues in one behaviour.
MaxTok == 2

\* Records in one answer of a Graph endpoint.
MaxRecords == 1

\* Addresses in the manualRecipients setting.
MaxManual == 1

\* ------------------------------------------------ authentication: constants
\* The scopes asked of the silent acquisition (authentication.js:73).
SilentScopes == {"Chat.ReadWrite", "User.Read"}

\* The scopes of the authorization URL and of the code exchange
\* (authentication.js:106 and :282): the scope set the operation requires.
RequiredScopes == {"Chat.ReadWrite", "User.Read", "ChatMessage.Send"}

\* The scope sets the identity provider may grant to a token.
GrantChoices == {RequiredScopes, SilentScopes, {"User.Read"}}

\* The identities that may sign in, in the order getAllAccounts lists them.
AccountOrder == <<"u1", "u2">>
Accounts == {AccountOrder[i] : i \in 1..Len(AccountOrder)}

\* No cached entry for an account; a token value of 0 is the empty token.
NoToken == 0
NoEntry == [scopes |-> {}, tok |-> NoToken]
EmptyCache == [a \in Accounts |-> NoEntry]

\* The content of the cache file: absent, unparseable, or a serialized cache.
Absent == [kind |-> "absent", entries |-> <<>>]
Corrupt == [kind |-> "corrupt", entries |-> <<>>]

\* What the query of the callback request may carry as `code`.
NoCode == "<no code>"
CallbackCodes == {NoCode, "", "abc", "xyz"}

\* A value is truthy in JavaScript: here for the code of the callback.
Truthy(s) == s # NoCode /\ s # ""

VARIABLES
    pc,          \* where the process is: inactive, idle, or a step of getAccessToken
    memCache,    \* cca.getTokenCache(): account -> cached entry
    file,        \* the content of msal-token-cache.json
    nextTok,     \* the next access token the identity provider issues
    silentRes,   \* what getSilentToken returned in the current call
    silentResp,  \* what acquireTokenSilent answered in the current call
    authCode,    \* the code the callback promise resolved with
    exchErr,     \* the error the code exchange of the current call ended with
    server,      \* the http server of the current call: none, listening, closed, failed
    orphan,      \* a server of an earlier call is still bound to port 3000
    closeCalls,  \* calls of server.close() in the current call
    calls,       \* per call: silent lookups, browser openings, listeners, exchanges
    ret,         \* what the last getAccessToken call returned
    shown,       \* the last message shown to the user
    soStreak,    \* consecutive completed signOut calls (capped at 2)
    soFirst,     \* memory and file after the first of two consecutive signOut calls
    soShown,     \* the messages of the last two consecutive signOut calls
    page,        \* the page the callback server answered last
    recipientsCache,   \* extension.js:392
    lastFetchTime,     \* extension.js:393 (0 is null)
    now,               \* Date.now()
    manualRecipients,  \* the manualRecipients setting
    req,               \* the answers the endpoints gave to the last getRecipients call
    apiOut,            \* what getPotentialRecipients returned to that call
    resOut,            \* what that call returned
    sharing,           \* a share command is between its getRecipients call and its end
    chatReq,           \* chat variant: what the last share command was given
    chatsOut,          \* chat variant: what getChats returned to it
    sendOut,           \* chat variant: what sendMessage returned to it
    said,              \* chat variant: the messages the command showed, in order
    opened,            \* chat variant: the links it handed to openExternal
    linkReq,           \* the arguments of a createTeamsDeepLink call
    linkOut,           \* what that call returned
    fmtReq,            \* the arguments of a formatCodeSnippet call
    fmtOut,            \* what that call returned
    pending,           \* requests on other paths the callback server left unanswered
    fetch,             \* the getRecipients call that awaits getPotentialRecipients
    overtaken,         \* a sign-out completed while that call was waiting
    staleCache         \* the cache holds a set fetched by a call a sign-out overtook

authVars == <<pc, memCache, file, nextTok, silentRes, silentResp, authCode, exchErr,
              server, orphan, closeCalls, calls, ret, shown,
              soStreak, soFirst, soShown, page>>

resVars == <<recipientsCache, lastFetchTime, now, manualRecipients, req, apiOut,
             resOut, sharing>>

chatVars == <<chatReq, chatsOut, sendOut, said, opened>>

pureVars == <<linkReq, linkOut, fmtReq, fmtOut>>

cbVars == <<pending>>

raceVars == <<fetch, overtaken, staleCache>>

vars == <<authVars, resVars, chatVars, pureVars, cbVars, raceVars>>

\* What the steps of one part of the program leave alone.
exceptAuth == <<resVars, chatVars, pureVars, cbVars, raceVars>>
exceptRes == <<authVars, chatVars, pureVars, cbVars, raceVars>>
exceptChat == <<authVars, resVars, pureVars, cbVars, raceVars>>
exceptPure == <<authVars, resVars, chatVars, cbVars, raceVars>>

\* ------------------------------------------------- authentication: helpers
\* getAllAccounts(): the accounts that have an entry, in order.
AllAccounts(cache) == SelectSeq(AccountOrder, LAMBDA a : cache[a] # NoEntry)

\* getTokenCache().serialize(): the entries as a list, in account order.
Serialize(cache) ==
    LET accs == AllAccounts(cache)
    IN  [kind |-> "json",
         entries |-> [i \in 1..Len(accs) |->
                        [account |-> accs[i],
                         scopes |-> cache[accs[i]].scopes,
                         tok |-> cache[accs[i]].tok]]]

\* Deserialize reading the first entry of the blob only.
DeserializeFirstEntry(blob, cache) ==
    [a \in Accounts |->
        IF Len(blob.entries) > 0 /\ blob.entries[1].account = a
        THEN [scopes |-> blob.entries[1].scopes, tok |-> blob.entries[1].tok]
        ELSE cache[a]]

\* getTokenCache().deserialize(data): the entries of the blob are merged in.
Deserialize(blob, cache) ==
    [a \in Accounts |->
        IF \E i \in 1..Len(blob.entries) : blob.entries[i].account = a
        THEN LET i == CHOOSE j \in 1..Len(blob.entries) : blob.entries[j].account = a
             IN  [scopes |-> blob.entries[i].scopes, tok |-> blob.entries[i].tok]
        ELSE cache[a]]

NoError == [class |-> "none", message |-> "none"]
NoResp == [kind |-> "none", token |-> NoToken, scopes |-> {}, error |-> "none"]
NoCalls == [silent |-> 0, browser |-> 0, listen |-> 0, exchange |-> 0]
NoRet == [token |-> NoToken, scopes |-> {}, via |-> "none"]
NullRet == [token |-> NoToken, scopes |-> {}, via |-> "null"]
NoMessage == [kind |-> "none", text |-> <<>>]
ErrorMessage(prefix, detail) == [kind |-> "error", text |-> <<prefix, detail>>]
InfoMessage(text) == [kind |-> "info", text |-> <<text>>]
NoSnap == [mem |-> EmptyCache, file |-> Absent, taken |-> FALSE]

\* Any operation other than signOut ends a run of consecutive signOut calls.
ResetStreak ==
    /\ soStreak' = 0
    /\ soFirst' = NoSnap
    /\ soShown' = <<>>

InitAuth ==
    /\ pc = "inactive"
    /\ memCache = EmptyCache
    /\ file = Absent
    /\ nextTok = 1
    /\ silentRes = NoRet
    /\ silentResp = NoResp
    /\ authCode = NoCode
    /\ exchErr = NoError
    /\ server = "none"
    /\ orphan = FALSE
    /\ closeCalls = 0
    /\ calls = NoCalls
    /\ ret = NoRet
    /\ shown = NoMessage
    /\ soStreak = 0
    /\ soFirst = NoSnap
    /\ soShown = <<>>
    /\ page = "none"

\* ------------------------------------------------------------- initialize
\* initialize(context): load the cache file when it exists; a parse error is
\* logged and the module continues without cache.
Initialize ==
    /\ pc = "inactive"
    /\ pc' = "idle"
    /\ memCache' = IF file.kind = "json" THEN Deserialize(file, memCache) ELSE memCache
    /\ ResetStreak
    /\ UNCHANGED <<file, nextTok, silentRes, silentResp, authCode, exchErr, server, orphan,
                   closeCalls, calls, ret, shown, page>>

\* The editor is closed and started again: the module is loaded afresh (an
\* empty in-memory cache, no server), the file is what the last session left,
\* or has been damaged in between.
Restart ==
    /\ pc = "idle"
    /\ pc' = "inactive"
    /\ memCache' = EmptyCache
    /\ \E damaged \in BOOLEAN :
          file' = IF damaged /\ file # Absent THEN Corrupt ELSE file
    /\ orphan' = FALSE
    /\ server' = "none"
    /\ closeCalls' = 0
    /\ silentRes' = NoRet
    /\ silentResp' = NoResp
    /\ authCode' = NoCode
    /\ exchErr' = NoError
    /\ calls' = NoCalls
    /\ ret' = NoRet
    /\ shown' = NoMessage
    /\ page' = "none"
    /\ ResetStreak
    /\ UNCHANGED nextTok

\* ---------------------------------------------------------- getSilentToken
\* What acquireTokenSilent may answer for the cached entry e of the first
\* account when asked for the scopes `asked`: the cached token when its scopes
\* cover what is asked, a token renewed with the refresh token (the entry of
\* the in-memory cache is replaced), a response without token, or an error.
SilentErrors == {"invalid_grant", "no_tokens_found", "network_error"}

SilentOutcomes(e, asked) ==
    (IF asked \subseteq e.scopes
        THEN {[kind |-> "cached", token |-> e.tok, scopes |-> e.scopes, error |-> "none"]}
        ELSE {})
    \cup (IF nextTok <= MaxTok
            THEN {[kind |-> "renewed", token |-> nextTok, scopes |-> g, error |-> "none"] :
                    g \in {h \in GrantChoices : asked \subseteq h}}
            ELSE {})
    \cup {[kind |-> "empty", token |-> NoToken, scopes |-> {}, error |-> "none"]}
    \cup {[kind |-> "error", token |-> NoToken, scopes |-> {}, error |-> x] :
            x \in SilentErrors}

\* The value getSilentToken returns for a response of acquireTokenSilent:
\* the token when the response carries one (authentication.js:77-80), else null.
SilentReturn(resp) ==
    IF resp.kind \in {"cached", "renewed"} /\ resp.token # NoToken
    THEN [token |-> resp.token, scopes |-> resp.scopes, via |-> "silent"]
    ELSE NullRet

\* getAccessToken is called (authentication.js:93): what the last call left is
\* forgotten.
GetAccessToken ==
    /\ pc = "idle"
    /\ pc' = "silent"
    /\ calls' = NoCalls
    /\ silentRes' = NoRet
    /\ silentResp' = NoResp
    /\ server' = "none"
    /\ closeCalls' = 0
    /\ authCode' = NoCode
    /\ exchErr' = NoError
    /\ ret' = NoRet
    /\ shown' = NoMessage
    /\ page' = "none"
    /\ ResetStreak
    /\ UNCHANGED <<memCache, file, nextTok, orphan>>

\* getSilentToken (authentication.js:64-87), called at authentication.js:96.
GetSilentToken ==
    /\ pc = "silent"
    /\ pc' = "after_silent"
    /\ calls' = [calls EXCEPT !.silent = @ + 1]
    /\ LET accs == AllAccounts(memCache)
       IN  IF Len(accs) = 0
           THEN /\ silentRes' = NullRet
                /\ silentResp' = NoResp
                /\ UNCHANGED <<memCache, nextTok>>
           ELSE \E resp \in SilentOutcomes(memCache[accs[1]], SilentScopes) :
                /\ silentRes' = SilentReturn(resp)
                /\ silentResp' = resp
                /\ IF resp.kind = "renewed"
                   THEN /\ memCache' = [memCache EXCEPT ![accs[1]] =
                                          [scopes |-> resp.scopes, tok |-> resp.token]]
                        /\ nextTok' = nextTok + 1
                   ELSE UNCHANGED <<memCache, nextTok>>
    /\ UNCHANGED <<file, authCode, exchErr, server, orphan, closeCalls, ret, shown,
                   soStreak, soFirst, soShown, page>>

\* getAccessToken, authentication.js:97-99: a silent token is returned as is.
ReturnSilentToken ==
    /\ pc = "after_silent"
    /\ silentRes.token # NoToken
    /\ pc' = "idle"
    /\ ret' = silentRes
    /\ UNCHANGED <<memCache, file, nextTok, silentRes, silentResp, authCode, exchErr, server,
                   orphan, closeCalls, calls, shown, soStreak, soFirst, soShown, page>>

\* FailWith with a catch that shows the error and throws it again.
FailAndRethrow(detail) ==
    /\ pc' = "idle"
    /\ ret' = [token |-> NoToken, scopes |-> {}, via |-> "raised"]
    /\ shown' = ErrorMessage("Authentication failed: ", detail)

\* The catch of getAccessToken (authentication.js:296-300): the error is shown
\* and null is returned.
FailWith(detail) ==
    /\ pc' = "idle"
    /\ ret' = NullRet
    /\ shown' = ErrorMessage("Authentication failed: ", detail)

\* OpenBrowser without the test of the silent token.
OpenBrowserUnguarded ==
    /\ pc = "after_silent"
    /\ pc' = "listen"
    /\ calls' = [calls EXCEPT !.browser = @ + 1]
    /\ UNCHANGED <<memCache, file, nextTok, silentRes, silentResp, authCode, exchErr, server,
                   orphan, closeCalls, ret, shown, soStreak, soFirst, soShown, page>>

\* getAccessToken, authentication.js:101-112: the authorization URL is built
\* and opened in the browser.
OpenBrowser ==
    /\ pc = "after_silent"
    /\ silentRes.token = NoToken
    /\ \E ok \in BOOLEAN :
          IF ok
          THEN /\ pc' = "listen"
               /\ calls' = [calls EXCEPT !.browser = @ + 1]
               /\ UNCHANGED <<ret, shown>>
          ELSE /\ FailWith("getAuthCodeUrl")
               /\ UNCHANGED calls
    /\ UNCHANGED <<memCache, file, nextTok, silentRes, silentResp, authCode, exchErr, server,
                   orphan, closeCalls, soStreak, soFirst, soShown, page>>

\* getAccessToken, authentication.js:115-116 and 270-276: the server is created
\* and asked to listen on port 3000. The port may be taken (by a server an
\* earlier call left bound, or by another program): the error event rejects
\* the promise.
StartListener ==
    /\ pc = "listen"
    /\ calls' = [calls EXCEPT !.listen = @ + 1]
    /\ \E bound \in (IF orphan THEN {FALSE} ELSE BOOLEAN) :
          IF bound
          THEN /\ server' = "listening"
               /\ pc' = "await_callback"
               /\ UNCHANGED <<ret, shown>>
          ELSE /\ server' = "failed"
               /\ FailWith("Server error: EADDRINUSE")
    /\ UNCHANGED <<memCache, file, nextTok, silentRes, silentResp, authCode, exchErr,
                   orphan, closeCalls, soStreak, soFirst, soShown, page>>

\* ListenerError as a timer that gives the wait up, the server left as it is.
AwaitTimeout ==
    /\ pc = "await_callback"
    /\ server = "listening"
    /\ FailWith("Authentication timed out")
    /\ UNCHANGED <<memCache, file, nextTok, silentRes, silentResp, authCode, exchErr,
                   server, orphan, closeCalls, calls, soStreak, soFirst, soShown, page>>

\* An error event of the listening server (authentication.js:274-276): the
\* promise is rejected; server.close() is not called, the server stays bound.
ListenerError ==
    /\ pc = "await_callback"
    /\ server = "listening"
    /\ server' = "leaked"
    /\ orphan' = TRUE
    /\ FailWith("Server error: accept")
    /\ UNCHANGED <<memCache, file, nextTok, silentRes, silentResp, authCode, exchErr,
                   closeCalls, calls, soStreak, soFirst, soShown, page>>

\* The page the request handler answers with (authentication.js:120-265).
CallbackPage(code) == IF Truthy(code) THEN "success" ELSE "failure"

\* CallbackRequest resolving the promise with whatever the query carries.
CallbackRequestAnyCode(code) ==
    /\ pc = "await_callback"
    /\ server = "listening"
    /\ page' = "success"
    /\ server' = "closed"
    /\ closeCalls' = closeCalls + 1
    /\ authCode' = code
    /\ pc' = "exchange"
    /\ UNCHANGED <<ret, shown, memCache, file, nextTok, silentRes, silentResp, orphan,
                   calls, exchErr, soStreak, soFirst, soShown>>

\* A request on /auth/callback (authentication.js:116-267): with a code the
\* promise resolves with it, without one it is rejected; the server is closed.
CallbackRequest(code) ==
    /\ pc = "await_callback"
    /\ server = "listening"
    /\ page' = CallbackPage(code)
    /\ server' = "closed"
    /\ closeCalls' = closeCalls + 1
    /\ IF Truthy(code)
       THEN /\ authCode' = code
            /\ pc' = "exchange"
            /\ UNCHANGED <<ret, shown>>
       ELSE /\ FailWith("No authorization code received")
            /\ UNCHANGED authCode
    /\ UNCHANGED <<memCache, file, nextTok, silentRes, silentResp, orphan, calls,
                   exchErr, soStreak, soFirst, soShown>>

\* A request on /auth/callback that reaches a server an earlier call left
\* bound: its handler answers, settles a promise that is settled already, and
\* closes that server.
OrphanCallback(code) ==
    /\ orphan
    /\ orphan' = FALSE
    /\ page' = CallbackPage(code)
    /\ UNCHANGED <<pc, memCache, file, nextTok, silentRes, silentResp, authCode, exchErr,
                   server, closeCalls, calls, ret, shown, soStreak, soFirst, soShown>>

\* Requests on other paths that may wait without an answer.
MaxPending == 1
\* Requests a kept-alive connection may carry after the server was closed.
MaxLate == 1

\* A request on another path than /auth/callback (authentication.js:117-119):
\* the handler does nothing, not even answer; the request stays open.
OtherPathRequest ==
    /\ server \in {"listening", "closed"}
    /\ pending < MaxPending
    /\ pending' = pending + 1
    /\ UNCHANGED <<authVars, resVars, chatVars, pureVars, raceVars>>

\* LateCallback with a promise that takes the code of the later request.
LateCallbackResolves(code) ==
    /\ server = "closed"
    /\ closeCalls < 1 + MaxLate
    /\ page' = CallbackPage(code)
    /\ closeCalls' = closeCalls + 1
    /\ authCode' = code
    /\ UNCHANGED <<pc, memCache, file, nextTok, silentRes, silentResp, exchErr, server,
                   orphan, calls, ret, shown, soStreak, soFirst, soShown>>
    /\ UNCHANGED exceptAuth

\* A further request on /auth/callback over a connection that was open when
\* server.close() (authentication.js:266) stopped the listening: the handler
\* answers and calls resolve or reject of the promise that is settled, which
\* does nothing, and server.close() again.
LateCallback(code) ==
    /\ server = "closed"
    /\ closeCalls < 1 + MaxLate
    /\ page' = CallbackPage(code)
    /\ closeCalls' = closeCalls + 1
    /\ UNCHANGED <<pc, memCache, file, nextTok, silentRes, silentResp, authCode, exchErr,
                   server, orphan, calls, ret, shown, soStreak, soFirst, soShown>>
    /\ UNCHANGED exceptAuth

\* saveTokenCache (authentication.js:50-58): the serialized cache is written;
\* a write error is logged only.
SaveTokenCache(cache, f, written) == IF written THEN Serialize(cache) ELSE f

\* The errors acquireTokenByCode may reject with: the class the identity
\* provider reports (errorCode, or subError for consent_required, which comes
\* as a suberror of invalid_grant) and error.message, which the library makes
\* of the errorCode and the provider's description, when there is one.
ExchangeErrors ==
    {[class |-> "access_denied", message |-> "access_denied"],
     [class |-> "invalid_grant", message |-> "invalid_grant"],
     [class |-> "consent_required", message |-> "invalid_grant"],
     [class |-> "consent_required", message |-> "invalid_grant: consent is required"],
     [class |-> "generic", message |-> "network_error"]}

\* authentication.js:295: a response without access token.
NoTokenError == [class |-> "generic", message |-> "Failed to retrieve access token"]

\* ExchangeCode with a cache write whose failure reaches the catch.
ExchangeCodeSaveFatal ==
    /\ pc = "exchange"
    /\ calls' = [calls EXCEPT !.exchange = @ + 1]
    /\ \/ /\ nextTok <= MaxTok
          /\ \E a \in Accounts, g \in GrantChoices, written \in BOOLEAN :
                /\ memCache' = [memCache EXCEPT ![a] = [scopes |-> g, tok |-> nextTok]]
                /\ file' = IF written THEN Serialize(memCache') ELSE file
                /\ IF written
                   THEN /\ ret' = [token |-> nextTok, scopes |-> g, via |-> "interactive"]
                        /\ pc' = "idle"
                        /\ UNCHANGED <<shown, exchErr>>
                   ELSE /\ FailWith("EACCES")
                        /\ UNCHANGED exchErr
          /\ nextTok' = nextTok + 1
       \/ /\ \E e \in ExchangeErrors \cup {NoTokenError} :
                /\ exchErr' = e
                /\ FailWith(e.message)
          /\ UNCHANGED <<memCache, file, nextTok>>
    /\ UNCHANGED <<silentRes, silentResp, authCode, server, orphan, closeCalls,
                   soStreak, soFirst, soShown, page>>

\* getAccessToken, authentication.js:279-295: the code is redeemed; on success
\* the library has put the account in its cache, the cache is saved and the
\* token returned.
ExchangeCode ==
    /\ pc = "exchange"
    /\ calls' = [calls EXCEPT !.exchange = @ + 1]
    /\ \/ /\ nextTok <= MaxTok
          /\ \E a \in Accounts, g \in GrantChoices, written \in BOOLEAN :
                /\ memCache' = [memCache EXCEPT ![a] = [scopes |-> g, tok |-> nextTok]]
                /\ file' = SaveTokenCache(memCache', file, written)
                /\ ret' = [token |-> nextTok, scopes |-> g, via |-> "interactive"]
          /\ nextTok' = nextTok + 1
          /\ pc' = "idle"
          /\ UNCHANGED <<shown, exchErr>>
       \/ /\ \E e \in ExchangeErrors \cup {NoTokenError} :
                /\ exchErr' = e
                /\ FailWith(e.message)
          /\ UNCHANGED <<memCache, file, nextTok>>
    /\ UNCHANGED <<silentRes, silentResp, authCode, server, orphan, closeCalls,
                   soStreak, soFirst, soShown, page>>

\* ---------------------------------------------------------------- signOut
\* The cache with the first k accounts removed.
RemoveFirst(cache, k) ==
    LET accs == AllAccounts(cache)
    IN  [a \in Accounts |->
            IF \E i \in 1..Len(accs) : i <= k /\ accs[i] = a THEN NoEntry ELSE cache[a]]

\* authentication.js:315-318: the file is deleted when it exists.
ClearCacheFile(f) == IF f # Absent THEN Absent ELSE f

\* signOut (authentication.js:306-326). failAt = 0: getAllAccounts raises;
\* failAt = k in 1..n: removeAccount of the k-th account raises; failAt = n+1:
\* nothing raises. Everything is inside one try: an error skips what follows.
SignOut ==
    /\ pc = "idle"
    /\ LET n == Len(AllAccounts(memCache))
       IN  \E failAt \in 0..(n + 1) :
             /\ memCache' = IF failAt = 0 THEN memCache
                            ELSE RemoveFirst(memCache, failAt - 1)
             /\ file' = IF failAt = n + 1 THEN ClearCacheFile(file) ELSE file
             /\ shown' = IF failAt = n + 1
                         THEN InfoMessage("Signed out from Microsoft Teams")
                         ELSE ErrorMessage("Failed to sign out: ",
                                           IF failAt = 0 THEN "getAllAccounts"
                                                         ELSE "removeAccount")
    /\ soStreak' = IF soStreak = 0 THEN 1 ELSE 2
    /\ soFirst' = IF soStreak = 0 THEN NoSnap
                  ELSE [mem |-> memCache, file |-> file, taken |-> TRUE]
    /\ soShown' = IF soStreak = 0 THEN <<shown'>>
                  ELSE <<soShown[Len(soShown)], shown'>>
    /\ UNCHANGED <<pc, nextTok, silentRes, silentResp, authCode, exchErr, server, orphan,
                   closeCalls, calls, ret, page>>

\* =========================================================================
\* The recipient resolver: contactsService.js and getRecipients of extension.js
\* =========================================================================

\* A property a JavaScript object does not have.
Undefined == "<undefined>"

\* JavaScript's falsy strings, and a || b.
Falsy(x) == x = Undefined \/ x = ""
Or(a, b) == IF Falsy(a) THEN b ELSE a

\* String.prototype.toLowerCase on the addresses of the model.
ToLowerCase(str) ==
    CASE str = "A@X.com" -> "a@x.com"
      [] str = "B@Y.com" -> "b@y.com"
      [] OTHER -> str

\* String.prototype.includes on the user principal names of the model.
Includes(str, part) ==
    CASE str = "me@x.com" -> part \in {"@"}
      [] str = "me@outlook.com" -> part \in {"@", "outlook.com"}
      [] OTHER -> FALSE

\* The position of a display name in the order of localeCompare: letters are
\* compared without case first, punctuation sorts before letters; an undefined
\* argument is compared as the string "undefined".
LocaleRank(name) ==
    CASE name = "a@x.com" -> 1
      [] name = "A@X.com" -> 2
      [] name = "Amy" -> 3
      [] name = "Ann" -> 4
      [] name = "b@y.com" -> 5
      [] name = "Cat" -> 6
      [] name = "Dan" -> 7
      [] name = "m@w.com" -> 8
      [] name = "Me" -> 9
      [] name = "<undefined>" -> 10
      [] name = "Zed" -> 11
      [] OTHER -> 12

\* ---- the answers of the Graph endpoints
Ok(list) == [status |-> 200, hasValue |-> TRUE, value |-> list]
NoValue == [status |-> 200, hasValue |-> FALSE, value |-> <<>>]
Fail(st) == [status |-> st, hasValue |-> FALSE, value |-> <<>>]

\* Records of GET /me/contacts.
RawContacts ==
    { [id |-> "c1", displayName |-> "Zed", emailAddresses |-> <<"a@x.com">>,
       department |-> "Sales", companyName |-> Undefined, jobTitle |-> Undefined],
      [id |-> "c3", displayName |-> "Cat", emailAddresses |-> <<>>,
       department |-> Undefined, companyName |-> Undefined, jobTitle |-> Undefined],
      [id |-> "c4", displayName |-> Undefined, emailAddresses |-> <<Undefined>>,
       department |-> Undefined, companyName |-> Undefined, jobTitle |-> Undefined] }

\* Records of GET /me/people.
RawPeople ==
    { [id |-> "p1", displayName |-> "Amy", scoredEmailAddresses |-> <<"A@X.com">>,
       department |-> "Eng", companyName |-> "X", jobTitle |-> Undefined],
      [id |-> "p2", displayName |-> "Cat", scoredEmailAddresses |-> <<"b@y.com">>,
       department |-> Undefined, companyName |-> Undefined, jobTitle |-> Undefined],
      [id |-> "p3", displayName |-> "Dan", scoredEmailAddresses |-> <<>>,
       department |-> Undefined, companyName |-> Undefined, jobTitle |-> Undefined] }

\* Records of GET /users.
RawUsers ==
    { [id |-> "d1", displayName |-> "Ann", mail |-> "A@X.com",
       userPrincipalName |-> "ann@x.com", department |-> "Eng", jobTitle |-> "Dev"],
      [id |-> "d2", displayName |-> "Dan", mail |-> Undefined,
       userPrincipalName |-> "B@Y.com", department |-> Undefined, jobTitle |-> Undefined],
      [id |-> "d3", displayName |-> "Zed", mail |-> Undefined,
       userPrincipalName |-> Undefined, department |-> Undefined, jobTitle |-> Undefined] }

\* Profiles of GET /me: a work account, a personal account, one without address.
Profiles ==
    { [id |-> "me", displayName |-> "Me", mail |-> "me@x.com",
       userPrincipalName |-> "me@x.com"],
      [id |-> "me", displayName |-> Undefined, mail |-> Undefined,
       userPrincipalName |-> "me@outlook.com"],
      [id |-> "me", displayName |-> "Me", mail |-> Undefined,
       userPrincipalName |-> Undefined] }
NoProfile == [id |-> Undefined, displayName |-> Undefined, mail |-> Undefined,
              userPrincipalName |-> Undefined]

\* ---- the normalized recipient
Recipient(id, displayName, email, department, company, jobTitle, isManual) ==
    [id |-> id, displayName |-> displayName, email |-> email,
     department |-> department, company |-> company, jobTitle |-> jobTitle,
     isManual |-> isManual]

\* contactsService.js:53-61.
MapContact(c) ==
    Recipient(c.id, Or(c.displayName, c.emailAddresses[1]), c.emailAddresses[1],
              Or(c.department, ""), Or(c.companyName, ""), Or(c.jobTitle, ""), FALSE)

\* contactsService.js:85-93.
MapPerson(q) ==
    Recipient(q.id, q.displayName, q.scoredEmailAddresses[1],
              Or(q.department, ""), Or(q.companyName, ""), Or(q.jobTitle, ""), FALSE)

\* contactsService.js:121-128 and 208-215.
MapUser(u) ==
    Recipient(u.id, u.displayName, Or(u.mail, u.userPrincipalName),
              Or(u.department, ""), Undefined, Or(u.jobTitle, ""), FALSE)

\* Array.prototype.map over the filtered items of each endpoint.
MapContacts(seq) == [i \in 1..Len(seq) |-> MapContact(seq[i])]
MapPeople(seq) == [i \in 1..Len(seq) |-> MapPerson(seq[i])]
MapUsers(seq) == [i \in 1..Len(seq) |-> MapUser(seq[i])]

\* contactsService.js:52.
HasEmailAddresses(c) == Len(c.emailAddresses) > 0
\* contactsService.js:84.
HasScoredAddresses(q) == Len(q.scoredEmailAddresses) > 0
\* contactsService.js:120 and 207.
HasMailOrUpn(u) == ~Falsy(u.mail) \/ ~Falsy(u.userPrincipalName)

\* c.email.toLowerCase() raises a TypeError when email is undefined.
LowerRaises(seq) == \E i \in 1..Len(seq) : seq[i].email = Undefined
LowerEmails(seq) == {ToLowerCase(seq[i].email) : i \in 1..Len(seq)}

\* contactsService.js:97-101 and 132-136: the new entries whose lowercased
\* email is not among the contacts so far are appended; a TypeError of
\* toLowerCase lands in the catch of the stage, which adds nothing.
AppendUnique(contacts, more) ==
    IF LowerRaises(contacts) \/ LowerRaises(more)
    THEN contacts
    ELSE contacts \o SelectSeq(more, LAMBDA r : ToLowerCase(r.email) \notin LowerEmails(contacts))

\* contactsService.js:30-35.
AccountType(profile) ==
    IF \/ Includes(profile.userPrincipalName, "#EXT#")
       \/ /\ Includes(profile.userPrincipalName, "@")
          /\ ~Includes(profile.userPrincipalName, "outlook.com")
          /\ ~Includes(profile.userPrincipalName, "hotmail.com")
          /\ ~Includes(profile.userPrincipalName, "live.com")
    THEN "work" ELSE "personal"

\* contactsService.js:109.
UsersFallbackThreshold == 5

Success(list, asked) == [ok |-> TRUE, value |-> list, error |-> <<>>, queried |-> asked]
Failure(msg, asked) == [ok |-> FALSE, value |-> <<>>, error |-> msg, queried |-> asked]

\* An Error made with `new Error(message)` has no response, hence no status.
NoStatus == 0

\* contactsService.js:164-175: the catch of getContacts tells 401 and 403 of
\* error.response apart from the rest.
ContactsCatch(status, msg, asked) ==
    IF status = 401
    THEN Failure(<<"Authentication failed. Please sign out and sign in again.">>, asked)
    ELSE IF status = 403
    THEN Failure(<<"Permission denied. Your account may not have the necessary permissions. Make sure you authorized Contacts.Read permissions.">>,
                 asked)
    ELSE Failure(<<"Failed to get contacts: ">> \o msg, asked)

\* contactsService.js:42-69: the direct contacts are added.
AddContacts(contacts, resp) ==
    IF resp.status = 200 /\ resp.hasValue
    THEN contacts \o MapContacts(SelectSeq(resp.value, HasEmailAddresses))
    ELSE contacts

\* AddPeople with a catch that drops what was found so far.
AddPeopleOrReset(contacts, resp) ==
    IF resp.status = 200 /\ resp.hasValue
    THEN AppendUnique(contacts, MapPeople(SelectSeq(resp.value, HasScoredAddresses)))
    ELSE IF resp.status = 200 THEN contacts ELSE <<>>

\* contactsService.js:72-106: the people are added.
AddPeople(contacts, resp) ==
    IF resp.status = 200 /\ resp.hasValue
    THEN AppendUnique(contacts, MapPeople(SelectSeq(resp.value, HasScoredAddresses)))
    ELSE contacts

\* contactsService.js:109: the users are asked for as a fallback.
UsersFallback(profile, contacts) ==
    AccountType(profile) = "work" /\ Len(contacts) < UsersFallbackThreshold

\* contactsService.js:108-142: the users of the directory are added.
AddUsers(profile, contacts, resp) ==
    IF UsersFallback(profile, contacts) /\ resp.status = 200 /\ resp.hasValue
    THEN AppendUnique(contacts, MapUsers(SelectSeq(resp.value, HasMailOrUpn)))
    ELSE contacts

\* contactsService.js:146-153.
CurrentUser(profile) ==
    Recipient(profile.id,
              Or(profile.displayName, Or(profile.mail, profile.userPrincipalName)),
              Or(profile.mail, profile.userPrincipalName),
              "", Undefined, "", FALSE)

\* ContactsOrSelf without the caller as last resort.
ContactsOrFail(profile, found, asked) ==
    IF Len(found) > 0 THEN Success(found, asked)
    ELSE ContactsCatch(NoStatus,
                       <<"Unable to fetch any contacts or users from Microsoft Graph API">>,
                       asked)

\* ContactsOrSelf adding the caller whatever was found.
ContactsAndSelf(profile, found, asked) ==
    IF ~Falsy(Or(profile.mail, profile.userPrincipalName))
    THEN Success(found \o <<CurrentUser(profile)>>, asked)
    ELSE IF Len(found) > 0 THEN Success(found, asked)
    ELSE ContactsCatch(NoStatus,
                       <<"Unable to fetch any contacts or users from Microsoft Graph API">>,
                       asked)

\* contactsService.js:144-161: without any contact the caller is the only
\* recipient, when the profile has an address; else the call fails.
ContactsOrSelf(profile, found, asked) ==
    IF Len(found) > 0 THEN Success(found, asked)
    ELSE IF ~Falsy(Or(profile.mail, profile.userPrincipalName))
    THEN Success(<<CurrentUser(profile)>>, asked)
    ELSE ContactsCatch(NoStatus,
                       <<"Unable to fetch any contacts or users from Microsoft Graph API">>,
                       asked)

\* getContacts (contactsService.js:10-176).
GetContacts(rq) ==
    IF rq.profile.status # 200
    THEN ContactsCatch(NoStatus,
                       <<"Unable to access your profile. Status: ",
                         ToString(rq.profile.status)>>, {"me"})
    ELSE LET profile == rq.profile.data
             direct == AddContacts(<<>>, rq.contacts)
             people == AddPeople(direct, rq.people)
             asked == {"me", "contacts", "people"}
                      \cup (IF UsersFallback(profile, people) THEN {"users"} ELSE {})
         IN  ContactsOrSelf(profile, AddUsers(profile, people, rq.users), asked)

\* getColleagues (contactsService.js:183-227).
GetColleagues(rq) ==
    IF rq.org.status # 200 THEN Success(<<>>, {"organization"})
    ELSE IF ~rq.org.hasValue \/ Len(rq.org.value) = 0
    THEN Success(<<>>, {"organization"})
    ELSE IF rq.colleagues.status # 200 THEN Success(<<>>, {"organization", "users2"})
    ELSE IF rq.colleagues.hasValue
    THEN Success(MapUsers(SelectSeq(rq.colleagues.value, HasMailOrUpn)),
                 {"organization", "users2"})
    ELSE Success(<<>>, {"organization", "users2"})

\* ---- a Map keyed by lowercased email, in insertion order
MapHas(m, k) == \E i \in 1..Len(m) : m[i].key = k
\* MapSet that leaves the value of a key that is present.
MapSetIfAbsent(m, k, v) ==
    IF MapHas(m, k) THEN m ELSE Append(m, [key |-> k, value |-> v])

MapSet(m, k, v) ==
    IF MapHas(m, k)
    THEN [i \in 1..Len(m) |-> IF m[i].key = k THEN [key |-> k, value |-> v] ELSE m[i]]
    ELSE Append(m, [key |-> k, value |-> v])
MapValues(m) == [i \in 1..Len(m) |-> m[i].value]

\* contactsService.js:258-269: the entries with an email are set in the map.
RECURSIVE SetAll(_, _)
SetAll(m, seq) ==
    IF seq = <<>> THEN m
    ELSE SetAll(IF Falsy(Head(seq).email) THEN m
                ELSE MapSet(m, ToLowerCase(Head(seq).email), Head(seq)),
                Tail(seq))

\* contactsService.js:275: a stable sort by displayName.localeCompare.
RECURSIVE InsertByName(_, _)
InsertByName(r, sorted) ==
    IF sorted = <<>> THEN <<r>>
    ELSE IF LocaleRank(r.displayName) < LocaleRank(Head(sorted).displayName)
    THEN <<r>> \o sorted
    ELSE <<Head(sorted)>> \o InsertByName(r, Tail(sorted))

RECURSIVE SortByName(_)
SortByName(seq) ==
    IF seq = <<>> THEN <<>>
    ELSE InsertByName(seq[Len(seq)], SortByName(SubSeq(seq, 1, Len(seq) - 1)))

\* contactsService.js:275: a.displayName.localeCompare raises a TypeError when
\* the first argument of the comparison has no displayName; the sort of the
\* extension host hands every element but the first of the array to the
\* comparison as its first argument.
SortRaises(seq) == \E i \in 2..Len(seq) : seq[i].displayName = Undefined

\* contactsService.js:237-240 and 242-245: a rejection becomes an empty list.
OrEmpty(outcome) == IF outcome.ok THEN outcome.value ELSE <<>>

\* MergeByEmail with the map keyed by the email as written.
RECURSIVE SetAllExact(_, _)
SetAllExact(m, seq) ==
    IF seq = <<>> THEN m
    ELSE SetAllExact(IF Falsy(Head(seq).email) THEN m
                     ELSE MapSet(m, Head(seq).email, Head(seq)),
                     Tail(seq))
MergeByExactEmail(contacts, colleagues) ==
    MapValues(SetAllExact(SetAllExact(<<>>, contacts), colleagues))

\* contactsService.js:255-272: contacts first, then colleagues.
MergeByEmail(contacts, colleagues) == MapValues(SetAll(SetAll(<<>>, contacts), colleagues))

\* getPotentialRecipients (contactsService.js:234-283).
GetPotentialRecipients(rq) ==
    LET fromContacts == GetContacts(rq)
        fromColleagues == GetColleagues(rq)
        contacts == OrEmpty(fromContacts)
        colleagues == OrEmpty(fromColleagues)
        asked == fromContacts.queried \cup fromColleagues.queried
    IN  IF Len(contacts) = 0 /\ Len(colleagues) = 0
        THEN Failure(<<"Failed to get contacts: ",
                       "Could not find any contacts. Please check your permissions or try adding contacts manually.">>,
                     asked)
        ELSE LET uniqueRecipients == MergeByEmail(contacts, colleagues)
             IN  IF SortRaises(uniqueRecipients)
                 THEN Failure(<<"Failed to get contacts: ",
                                "Cannot read properties of undefined (reading 'localeCompare')">>,
                              asked)
                 ELSE Success(SortByName(uniqueRecipients), asked)

\* extension.js:540-550: a manual address is added when its key is free.
ManualRecipient(email) ==
    Recipient("manual-" \o ToLowerCase(email), email, email,
              Undefined, Undefined, Undefined, TRUE)

RECURSIVE AddManual(_, _)
AddManual(m, emails) ==
    IF emails = <<>> THEN m
    ELSE AddManual(IF MapHas(m, ToLowerCase(Head(emails))) THEN m
                   ELSE MapSet(m, ToLowerCase(Head(emails)), ManualRecipient(Head(emails))),
                   Tail(emails))

RECURSIVE SetAllApi(_, _)
\* extension.js:535-537.
SetAllApi(m, seq) ==
    IF seq = <<>> THEN m
    ELSE SetAllApi(MapSet(m, ToLowerCase(Head(seq).email), Head(seq)), Tail(seq))

\* CombineWithManual setting the manual entries whether the key is free or not.
CombineManualOverwriting(apiRecipients, manual) ==
    MapValues(SetAllApi(SetAllApi(<<>>, apiRecipients),
                        [i \in 1..Len(manual) |-> ManualRecipient(manual[i])]))

\* extension.js:527-553: the API recipients, then the manual ones.
CombineWithManual(apiRecipients, manual) ==
    MapValues(AddManual(SetAllApi(<<>>, apiRecipients), manual))

\* ---- what the endpoints may answer
ProfileFailStatuses == {401, 403, 500}
SourceFailStatuses == {403}
NotAsked == [status |-> 0, hasValue |-> FALSE, value |-> <<>>]
NoProfileAnswer == [status |-> 0, data |-> NoProfile]

ListsUpTo(S, n) == UNION {[1..k -> S] : k \in 0..n}

SourceResponses(S) ==
    {Fail(st) : st \in SourceFailStatuses} \cup {NoValue}
    \cup {Ok(l) : l \in ListsUpTo(S, MaxRecords)}

ProfileResponses ==
    {[status |-> st, data |-> NoProfile] : st \in ProfileFailStatuses}
    \cup {[status |-> 200, data |-> q] : q \in Profiles}

OrgResponses == {Fail(st) : st \in SourceFailStatuses}
                \cup {Ok(<<>>), Ok(<<[id |-> "org1"]>>)}

NoReq == [profile |-> NoProfileAnswer, contacts |-> NotAsked, people |-> NotAsked,
          users |-> NotAsked, org |-> NotAsked, colleagues |-> NotAsked]

\* The answers getContacts sees: an endpoint that is not asked answers nothing.
ContactSides ==
    {[profile |-> a, contacts |-> NotAsked, people |-> NotAsked, users |-> NotAsked] :
        a \in {x \in ProfileResponses : x.status # 200}}
    \cup UNION {
        {[profile |-> t[1], contacts |-> t[2], people |-> t[3], users |-> u] :
            u \in (IF UsersFallback(t[1].data,
                                    AddPeople(AddContacts(<<>>, t[2]), t[3]))
                   THEN SourceResponses(RawUsers) ELSE {NotAsked})} :
        t \in {x \in ProfileResponses : x.status = 200}
              \X SourceResponses(RawContacts) \X SourceResponses(RawPeople)}

\* The answers getColleagues sees.
ColleagueSides ==
    {[org |-> o, colleagues |-> NotAsked] :
        o \in {x \in OrgResponses : x.status # 200 \/ Len(x.value) = 0}}
    \cup {[org |-> t[1], colleagues |-> t[2]] :
            t \in {x \in OrgResponses : x.status = 200 /\ Len(x.value) > 0}
                  \X SourceResponses(RawUsers)}

\* The answers of one resolution.
Request(a, b) ==
    [profile |-> a.profile, contacts |-> a.contacts, people |-> a.people,
     users |-> a.users, org |-> b.org, colleagues |-> b.colleagues]

\* What the user may type in the input box of the add-recipient command.
ManualInputs == {"A@X.com", "m@w.com"}

\* extension.js:394.
CACHE_EXPIRY_MS == 600000

NullCache == [set |-> FALSE, value |-> <<>>]
NotRun == [ok |-> FALSE, value |-> <<>>, error |-> <<"not run">>, queried |-> {}]
NoResult == [ok |-> FALSE, value |-> <<>>, error |-> <<"no call">>, fromCache |-> FALSE]

InitRes ==
    /\ recipientsCache = NullCache
    /\ lastFetchTime = 0
    /\ now = CACHE_EXPIRY_MS
    /\ manualRecipients = <<>>
    /\ req = NoReq
    /\ apiOut = NotRun
    /\ resOut = NoResult
    /\ sharing = FALSE

\* CacheValid with a cache that lives ten minutes and the millisecond after.
CacheValidInclusive == recipientsCache.set /\ lastFetchTime # 0
                       /\ now - lastFetchTime <= CACHE_EXPIRY_MS

\* CacheValid by the age of the last fetch alone.
CacheValidByAge == lastFetchTime # 0 /\ now - lastFetchTime < CACHE_EXPIRY_MS

\* extension.js:519: the cache is used when it is set and not older than the
\* lifetime.
CacheValid == recipientsCache.set /\ lastFetchTime # 0
              /\ now - lastFetchTime < CACHE_EXPIRY_MS

\* getRecipients (extension.js:516-557).
GetRecipients ==
    /\ pc = "idle"
    /\ ~sharing
    /\ sharing' = TRUE
    /\ IF CacheValid
       THEN /\ resOut' = [ok |-> TRUE, value |-> recipientsCache.value,
                          error |-> <<>>, fromCache |-> TRUE]
            /\ req' = NoReq
            /\ apiOut' = NotRun
            /\ UNCHANGED <<recipientsCache, lastFetchTime>>
       ELSE \E a \in ContactSides, b \in ColleagueSides :
            LET rq == Request(a, b)
                api == GetPotentialRecipients(rq)
            IN  /\ req' = rq
                /\ apiOut' = api
                /\ IF api.ok
                   THEN LET all == CombineWithManual(api.value, manualRecipients)
                        IN  /\ recipientsCache' = [set |-> TRUE, value |-> all]
                            /\ lastFetchTime' = now
                            /\ resOut' = [ok |-> TRUE, value |-> all,
                                          error |-> <<>>, fromCache |-> FALSE]
                   ELSE /\ resOut' = [ok |-> FALSE, value |-> <<>>,
                                      error |-> api.error, fromCache |-> FALSE]
                        /\ UNCHANGED <<recipientsCache, lastFetchTime>>
    /\ UNCHANGED <<now, manualRecipients>>
    /\ UNCHANGED exceptRes

InSeq(x, seq) == \E i \in 1..Len(seq) : seq[i] = x

\* The add-recipient command (extension.js:479-506); the input box may be
\* dismissed.
AddManualRecipientCommand ==
    /\ pc = "idle"
    /\ ~sharing
    /\ \E email \in ManualInputs \cup {Undefined} :
          IF Falsy(email)
          THEN UNCHANGED <<manualRecipients, recipientsCache>>
          ELSE /\ InSeq(email, manualRecipients) \/ Len(manualRecipients) < MaxManual
               /\ manualRecipients' = IF InSeq(email, manualRecipients)
                                      THEN manualRecipients
                                      ELSE Append(manualRecipients, email)
               /\ recipientsCache' = NullCache
    /\ UNCHANGED <<lastFetchTime, now, req, apiOut, resOut, sharing>>
    /\ UNCHANGED exceptRes

\* The share command that called getRecipients ends (extension.js:446-465):
\* what it was given is dropped, the cache stays.
ShareCommandEnds ==
    /\ sharing
    /\ sharing' = FALSE
    /\ req' = NoReq
    /\ apiOut' = NotRun
    /\ resOut' = NoResult
    /\ UNCHANGED <<recipientsCache, lastFetchTime, now, manualRecipients>>
    /\ UNCHANGED exceptRes

\* The sign-out command (extension.js:472-477).
SignOutCommand ==
    /\ ~sharing
    /\ SignOut
    /\ recipientsCache' = NullCache
    /\ lastFetchTime' = 0
    /\ UNCHANGED <<now, manualRecipients, req, apiOut, resOut, sharing>>
    /\ UNCHANGED <<chatVars, pureVars, cbVars, raceVars>>

\* =========================================================================
\* The chat variant: teamsservice.js and the share command of extension.js:1-178
\* =========================================================================

\* A chat of the chat list may hold.
MaxChats == 1

\* teamsservice.js and its earlier copy unnamed/part_000: they differ in the
\* texts of the errors and in the log lines that read the response.
Variants == {"teamsservice.js", "part_000"}

\* teamsservice.js:37, part_000:34.
NotAuthorizedChats(v) ==
    IF v = "teamsservice.js"
    THEN "Not authorized to access Teams chats. Please sign out and try again or check permissions in Azure AD."
    ELSE "Not authorized to access Teams chats. Please check permissions or sign out and try again."

\* teamsservice.js:54, part_000:54.
ChatsFailed(v) ==
    IF v = "teamsservice.js"
    THEN "Failed to get Teams chats. Ensure Microsoft Teams is installed and you are logged in."
    ELSE "Failed to get Teams chats. Please ensure you have Microsoft Teams installed and are logged in."

\* teamsservice.js:110, part_000:114.
SendFailed(v) ==
    IF v = "teamsservice.js"
    THEN "Failed to send message to Teams. Try the fallback method."
    ELSE "Failed to send message to Teams. Please try the fallback method."

\* The statusCode of the errors the Graph client raises in the model.
GraphFailStatuses == {401, 403, 404, 500}
\* teamsservice.js:35.
AuthorizationStatuses == {401, 403}

\* Chats as GET /me/chats?$expand=members lists them: a group chat with a
\* topic and a direct chat without.
RawChats ==
    { [id |-> "19:g", topic |-> "Team", members |-> <<"Amy", "Bob">>],
      [id |-> "19:d", topic |-> Undefined, members |-> <<"Amy", "Me (You)">>] }

NoChatsCall == [ok |-> FALSE, defined |-> FALSE, value |-> <<>>,
                error |-> "not called", axios |-> FALSE]
NoSendCall == [ok |-> FALSE, defined |-> FALSE, value |-> <<>>,
               error |-> "not called", axios |-> FALSE]

\* teamsservice.js:11-33: what the try block of getChats raises. The profile
\* request or the chats request may fail with a statusCode; teamsservice.js:31
\* reads response.value.length, a TypeError (no statusCode) when the answer has
\* no value.
ChatsError(v, me, chats) ==
    IF me.status # 200 THEN [raised |-> TRUE, status |-> me.status]
    ELSE IF chats.status # 200 THEN [raised |-> TRUE, status |-> chats.status]
    ELSE IF ~chats.hasValue /\ v = "teamsservice.js"
    THEN [raised |-> TRUE, status |-> NoStatus]
    ELSE [raised |-> FALSE, status |-> NoStatus]

\* teamsservice.js:35-41: the axios request follows every error but 401 and 403.
AxiosChatsAsked(v, me, chats) ==
    LET e == ChatsError(v, me, chats)
    IN  e.raised /\ e.status \notin AuthorizationStatuses

\* getChats asking axios after every error.
GetChatsAlwaysFallback(v, me, chats, ax) ==
    LET e == ChatsError(v, me, chats)
    IN  IF ~e.raised
        THEN [ok |-> TRUE, defined |-> chats.hasValue, value |-> chats.value,
              error |-> "", axios |-> FALSE]
        ELSE IF ax.status = 200 /\ ax.hasValue
        THEN [ok |-> TRUE, defined |-> TRUE, value |-> ax.value,
              error |-> "", axios |-> TRUE]
        ELSE [ok |-> FALSE, defined |-> FALSE, value |-> <<>>,
              error |-> ChatsFailed(v), axios |-> TRUE]

\* getChats (teamsservice.js:10-56).
GetChats(v, me, chats, ax) ==
    LET e == ChatsError(v, me, chats)
    IN  IF ~e.raised
        THEN [ok |-> TRUE, defined |-> chats.hasValue, value |-> chats.value,
              error |-> "", axios |-> FALSE]
        ELSE IF e.status \in AuthorizationStatuses
        THEN [ok |-> FALSE, defined |-> FALSE, value |-> <<>>,
              error |-> NotAuthorizedChats(v), axios |-> FALSE]
        ELSE IF ax.status = 200 /\ ax.hasValue
        THEN [ok |-> TRUE, defined |-> TRUE, value |-> ax.value,
              error |-> "", axios |-> TRUE]
        ELSE [ok |-> FALSE, defined |-> FALSE, value |-> <<>>,
              error |-> ChatsFailed(v), axios |-> TRUE]

\* teamsservice.js:66-86: the POST raises on a failure status; teamsservice.js:85
\* reads response.id, a TypeError when the answer has no body.
SendRaises(v, post) ==
    post.status # 200 \/ (~post.hasValue /\ v = "teamsservice.js")

\* sendMessage (teamsservice.js:65-112): every error of the Graph client is
\* followed by the same POST through axios.
SendMessage(v, post, ax) ==
    IF ~SendRaises(v, post)
    THEN [ok |-> TRUE, defined |-> post.hasValue, value |-> post.value,
          error |-> "", axios |-> FALSE]
    ELSE IF ax.status = 200 /\ ax.hasValue
    THEN [ok |-> TRUE, defined |-> TRUE, value |-> ax.value,
          error |-> "", axios |-> TRUE]
    ELSE [ok |-> FALSE, defined |-> FALSE, value |-> <<>>,
          error |-> SendFailed(v), axios |-> TRUE]

\* The three backquotes that open and close a code block.
Fence == "<3 backquotes>"
LineBreak == "<line break>"

\* formatCodeSnippet printing the language as it is given.
FormatCodeSnippetAsGiven(text, languageId) ==
    <<Fence, languageId, LineBreak, text, LineBreak, Fence>>

\* formatCodeSnippet (extension.js:80-83 and 637-640): the fence, the language or nothing,
\* the text between line breaks, the fence.
FormatCodeSnippet(text, languageId) ==
    <<Fence, Or(languageId, ""), LineBreak, text, LineBreak, Fence>>

\* encodeURIComponent on the pieces of the model.
EncodeURIComponent(piece) ==
    CASE piece = Fence -> "%60%60%60"
      [] piece = LineBreak -> "%0A"
      [] piece = "a b" -> "a%20b"
      [] OTHER -> piece

\* extension.js:164-165.
DeepLink(formattedText) ==
    <<"msteams://teams.microsoft.com/l/chat/0/0?message=">>
    \o [i \in 1..Len(formattedText) |-> EncodeURIComponent(formattedText[i])]

\* getChatLabel (extension.js:134-145); the joined names are kept as a list.
GetChatLabel(chat) ==
    IF ~Falsy(chat.topic) THEN <<chat.topic>>
    ELSE LET others == SelectSeq(chat.members, LAMBDA m : m # "Me (You)")
         IN  IF Len(others) > 0 THEN others ELSE <<"Chat">>

Threw(message, chats, send) ==
    [kind |-> "threw", error |-> message, info |-> <<>>, chats |-> chats, send |-> send]

\* shareViaGraphApi (extension.js:92-127).
ShareViaGraphApi(rq) ==
    IF rq.token = NoToken THEN Threw("Authentication failed", NoChatsCall, NoSendCall)
    ELSE LET chats == GetChats(rq.variant, rq.me, rq.chats, rq.axChats)
         IN  IF ~chats.ok THEN Threw(chats.error, chats, NoSendCall)
             ELSE IF ~chats.defined \/ Len(chats.value) = 0
             THEN Threw("No Teams chats found. Ensure you have active chats in Microsoft Teams.",
                        chats, NoSendCall)
             ELSE IF rq.pick = 0
             THEN [kind |-> "cancelled", error |-> "", info |-> <<>>,
                   chats |-> chats, send |-> NoSendCall]
             ELSE LET send == SendMessage(rq.variant, rq.post, rq.axPost)
                  IN  IF ~send.ok THEN Threw(send.error, chats, send)
                      ELSE [kind |-> "sent", error |-> "",
                            info |-> <<"Code shared to Teams chat ">>
                                     \o GetChatLabel(chats.value[rq.pick])
                                     \o <<" successfully!">>,
                            chats |-> chats, send |-> send]

\* ---- what the chat backend and the user may answer
MeResponses == {Ok(<<>>)} \cup {Fail(st) : st \in GraphFailStatuses}
ChatsResponses ==
    {Fail(st) : st \in GraphFailStatuses} \cup {NoValue}
    \cup {Ok(l) : l \in ListsUpTo(RawChats, MaxChats)}
AxiosChatsResponses ==
    {Fail(403), Fail(500), NoValue} \cup {Ok(l) : l \in ListsUpTo(RawChats, MaxChats)}
PostResponses ==
    {Fail(st) : st \in GraphFailStatuses} \cup {NoValue, Ok(<<"m1">>)}
AxiosPostResponses == {Fail(403), Fail(500), NoValue, Ok(<<"m1">>)}

\* The answers getChats sees: a request that is not made answers nothing.
ChatsSides(v) ==
    UNION {
        {[me |-> t[1], chats |-> t[2], axChats |-> x] :
            x \in (IF AxiosChatsAsked(v, t[1], t[2])
                   THEN AxiosChatsResponses ELSE {NotAsked})} :
        t \in ({m \in MeResponses : m.status # 200} \X {NotAsked})
              \cup ({Ok(<<>>)} \X ChatsResponses)}

\* The answers sendMessage sees.
SendSides(v) ==
    UNION {
        {[post |-> q, axPost |-> x] :
            x \in (IF SendRaises(v, q) THEN AxiosPostResponses ELSE {NotAsked})} :
        q \in PostResponses}

NoSendSide == [post |-> NotAsked, axPost |-> NotAsked]
NoChatsSide == [me |-> NotAsked, chats |-> NotAsked, axChats |-> NotAsked]

ChatRequest(v, token, c, pick, q) ==
    [variant |-> v, token |-> token, me |-> c.me, chats |-> c.chats,
     axChats |-> c.axChats, pick |-> pick, post |-> q.post, axPost |-> q.axPost]

\* What one share command may meet: without a token nothing is asked; the quick
\* pick is shown for a chat list that is not empty, and the message is posted
\* when a chat is picked (pick 0: the quick pick is dismissed).
ChatRequests ==
    UNION {
        {ChatRequest(v, NoToken, NoChatsSide, 0, NoSendSide)}
        \cup UNION {
            LET got == GetChats(v, c.me, c.chats, c.axChats)
            IN  IF got.ok /\ got.defined /\ Len(got.value) > 0
                THEN {ChatRequest(v, 1, c, 0, NoSendSide)}
                     \cup {ChatRequest(v, 1, c, k, q) :
                              k \in 1..Len(got.value), q \in SendSides(v)}
                ELSE {ChatRequest(v, 1, c, 0, NoSendSide)} :
            c \in ChatsSides(v)} :
        v \in Variants}

\* The editor the command finds (extension.js:15-31) and the includeLanguage
\* setting applied to its language (33-34).
Editors ==
    {[kind |-> k, text |-> "", languageId |-> Undefined] :
        k \in {"no editor", "no selection", "empty text"}}
    \cup {[kind |-> "ok", text |-> "a b", languageId |-> l] : l \in {"js", Undefined}}

EditorError(kind) ==
    CASE kind = "no editor" -> "No active editor found"
      [] kind = "no selection" -> "No text selected"
      [] OTHER -> "Selected text is empty"

\* The answers to the error prompt of extension.js:52-55.
Answers == {"Yes", "No", Undefined}

ErrorSaid(text) == [kind |-> "error", text |-> text]
InfoSaid(text) == [kind |-> "info", text |-> text]
\* extension.js:52-55.
PromptSaid(message) ==
    [kind |-> "prompt", text |-> <<"Error: ", message, ". Use Teams deep link instead?">>]
\* extension.js:62-63.
OuterError(message) == ErrorSaid(<<"Error sharing code to Teams: ", message>>)
\* extension.js:167.
TeamsOpened ==
    InfoSaid(<<"Microsoft Teams opened. Please select recipients to share your code.">>)

\* What openExternal raises when it rejects.
OpenFailed == "openExternal failed"

\* extension.js:50-58: the error is shown with the offer of the deep link, and
\* the link is opened when the answer is Yes; an error of that call reaches the
\* outer handler (61-64).
AfterPrompt(message, answer, ext, link) ==
    [said |-> <<PromptSaid(message)>>
              \o (IF answer # "Yes" THEN <<>>
                  ELSE IF ext = "opens" THEN <<TeamsOpened>>
                  ELSE <<OuterError(OpenFailed)>>),
     opened |-> IF answer = "Yes" THEN <<link>> ELSE <<>>]

NoChatReq ==
    [editor |-> "none",
     request |-> ChatRequest("none", NoToken, NoChatsSide, 0, NoSendSide)]

InitChat ==
    /\ chatReq = NoChatReq
    /\ chatsOut = NoChatsCall
    /\ sendOut = NoSendCall
    /\ said = <<>>
    /\ opened = <<>>

\* The share command of the chat variant (extension.js:13-65), run when no
\* other share command is running.
ShareCommandChat ==
    /\ pc = "idle"
    /\ chatReq = NoChatReq
    /\ \E ed \in Editors :
         IF ed.kind # "ok"
         THEN /\ chatReq' = [editor |-> ed.kind,
                             request |-> ChatRequest("none", NoToken, NoChatsSide, 0, NoSendSide)]
              /\ chatsOut' = NoChatsCall
              /\ sendOut' = NoSendCall
              /\ said' = <<ErrorSaid(<<EditorError(ed.kind)>>)>>
              /\ opened' = <<>>
         ELSE \E rq \in ChatRequests, ext \in {"opens", "raises"}, answer \in Answers :
              LET link == DeepLink(FormatCodeSnippet(ed.text, ed.languageId))
                  g == ShareViaGraphApi(rq)
                  end == IF g.kind = "sent"
                         THEN [said |-> <<InfoSaid(g.info)>>, opened |-> <<>>]
                         ELSE IF g.kind = "threw"
                         THEN AfterPrompt(g.error, answer, ext, link)
                         ELSE IF ext = "opens"
                         THEN [said |-> <<TeamsOpened>>, opened |-> <<link>>]
                         ELSE LET again == AfterPrompt(OpenFailed, answer, ext, link)
                              IN  [said |-> again.said,
                                   opened |-> <<link>> \o again.opened]
              IN  /\ chatReq' = [editor |-> ed.kind, request |-> rq]
                  /\ chatsOut' = g.chats
                  /\ sendOut' = g.send
                  /\ said' = end.said
                  /\ opened' = end.opened
    /\ UNCHANGED exceptChat

\* The share command has ended (extension.js:65): what it was given and what
\* it showed are gone.
ShareCommandChatEnds ==
    /\ chatReq # NoChatReq
    /\ chatReq' = NoChatReq
    /\ chatsOut' = NoChatsCall
    /\ sendOut' = NoSendCall
    /\ said' = <<>>
    /\ opened' = <<>>
    /\ UNCHANGED exceptChat

\* =========================================================================
\* The pure functions: createTeamsDeepLink (contactsService.js:291-295) and
\* formatCodeSnippet (extension.js:637-640)
\* =========================================================================

\* UTF-16 code units in the content handed to createTeamsDeepLink.
MaxLen == 2
\* Addresses in the list handed to createTeamsDeepLink.
MaxEmails == 2

\* The two halves of a surrogate pair (U+1F600): a string may hold one
\* without the other.
HiSurrogate == "<D83D>"
LoSurrogate == "<DE00>"

\* Strings are sequences of code units.
ContentUnits == {"a", " ", "&", "%", HiSurrogate, LoSurrogate}
EmailChoices == {<<"a", "@", "x">>, <<"b", "+", "c", "@", "y">>}

\* Array.prototype.join (contactsService.js:292).
RECURSIVE Join(_, _)
Join(list, separator) ==
    IF list = <<>> THEN <<>>
    ELSE IF Len(list) = 1 THEN list[1]
    ELSE list[1] \o <<separator>> \o Join(Tail(list), separator)

\* The code units encodeURIComponent leaves as they are (letters, digits and
\* - _ . ! ~ * ' ( ) in JavaScript; the letters of the model here).
Unreserved(u) == u \in {"a", "b", "c", "x", "y"}

\* The percent escape of the UTF-8 byte of an ASCII code unit.
Escape(u) ==
    CASE u = " " -> <<"%", "2", "0">>
      [] u = "%" -> <<"%", "2", "5">>
      [] u = "&" -> <<"%", "2", "6">>
      [] u = "+" -> <<"%", "2", "B">>
      [] u = "," -> <<"%", "2", "C">>
      [] u = "@" -> <<"%", "4", "0">>

\* The four UTF-8 bytes of the surrogate pair.
PairEscape == <<"%", "F", "0", "%", "9", "F", "%", "9", "8", "%", "8", "0">>

\* A string without a surrogate that lacks its other half.
RECURSIVE WellFormed(_)
WellFormed(units) ==
    IF units = <<>> THEN TRUE
    ELSE IF Head(units) = HiSurrogate
    THEN Len(units) >= 2 /\ units[2] = LoSurrogate /\ WellFormed(Tail(Tail(units)))
    ELSE Head(units) # LoSurrogate /\ WellFormed(Tail(units))

\* The escapes of a well-formed string.
RECURSIVE EncodeUnits(_)
EncodeUnits(units) ==
    IF units = <<>> THEN <<>>
    ELSE IF Head(units) = HiSurrogate THEN PairEscape \o EncodeUnits(Tail(Tail(units)))
    ELSE IF Unreserved(Head(units)) THEN <<Head(units)>> \o EncodeUnits(Tail(units))
    ELSE Escape(Head(units)) \o EncodeUnits(Tail(units))

\* encodeURIComponent of a string (contactsService.js:292-293): it raises a
\* URIError for a surrogate without its other half.
EncodeURIComponentUnits(units) ==
    IF WellFormed(units) THEN [ok |-> TRUE, value |-> EncodeUnits(units)]
    ELSE [ok |-> FALSE, value |-> <<>>]

\* The code unit of an escaped byte.
Unescape(hi, lo) ==
    CASE hi = "2" /\ lo = "0" -> " "
      [] hi = "2" /\ lo = "5" -> "%"
      [] hi = "2" /\ lo = "6" -> "&"
      [] hi = "2" /\ lo = "B" -> "+"
      [] hi = "2" /\ lo = "C" -> ","
      [] hi = "4" /\ lo = "0" -> "@"

\* decodeURIComponent of what encodeURIComponent returned.
RECURSIVE DecodeURIComponent(_)
DecodeURIComponent(enc) ==
    IF enc = <<>> THEN <<>>
    ELSE IF Head(enc) # "%" THEN <<Head(enc)>> \o DecodeURIComponent(Tail(enc))
    ELSE IF enc[2] = "F"
    THEN <<HiSurrogate, LoSurrogate>> \o DecodeURIComponent(SubSeq(enc, 13, Len(enc)))
    ELSE <<Unescape(enc[2], enc[3])>> \o DecodeURIComponent(SubSeq(enc, 4, Len(enc)))

UsersPrefix == "https://teams.microsoft.com/l/chat/0/0?users="
MessageMark == "&message="

NoLink == [called |-> FALSE, ok |-> FALSE, url |-> <<>>]

\* createTeamsDeepLink (contactsService.js:291-295): an error of
\* encodeURIComponent leaves the function.
CreateTeamsDeepLink(emails, content) ==
    LET encodedUsers == EncodeURIComponentUnits(Join(emails, ","))
        encodedMessage == EncodeURIComponentUnits(content)
    IN  IF encodedUsers.ok /\ encodedMessage.ok
        THEN [called |-> TRUE, ok |-> TRUE,
              url |-> <<UsersPrefix>> \o encodedUsers.value
                      \o <<MessageMark>> \o encodedMessage.value]
        ELSE [called |-> TRUE, ok |-> FALSE, url |-> <<>>]

\* The value of a parameter of the link: what stands between the prefix and
\* the mark of the message parameter, and what stands after the mark.
MarkAt(url) == CHOOSE i \in 1..Len(url) : url[i] = MessageMark
UsersParameter(url) == SubSeq(url, 2, MarkAt(url) - 1)
MessageParameter(url) == SubSeq(url, MarkAt(url) + 1, Len(url))

\* What the functions may be called with.
LinkRequests ==
    {[emails |-> e, content |-> c] :
        e \in ListsUpTo(EmailChoices, MaxEmails),
        c \in ListsUpTo(ContentUnits, MaxLen)}

FormatRequests ==
    {[text |-> t, languageId |-> l] :
        t \in {"a b", ""}, l \in {"js", "", Undefined}}

NoFormat == <<>>

\* No function has been called.
InitPure ==
    /\ linkReq = [emails |-> <<>>, content |-> <<>>]
    /\ linkOut = NoLink
    /\ fmtReq = [text |-> "", languageId |-> Undefined]
    /\ fmtOut = NoFormat

\* The arguments are chosen, the functions are not called yet.
InitCalls ==
    /\ linkReq \in LinkRequests
    /\ linkOut = NoLink
    /\ fmtReq \in FormatRequests
    /\ fmtOut = NoFormat

CreateTeamsDeepLinkCall ==
    /\ ~linkOut.called
    /\ linkOut' = CreateTeamsDeepLink(linkReq.emails, linkReq.content)
    /\ UNCHANGED <<linkReq, fmtReq, fmtOut>>
    /\ UNCHANGED exceptPure

FormatCodeSnippetCall ==
    /\ fmtOut = NoFormat
    /\ fmtOut' = FormatCodeSnippet(fmtReq.text, fmtReq.languageId)
    /\ UNCHANGED <<linkReq, linkOut, fmtReq>>
    /\ UNCHANGED exceptPure

\* ------------------------------- getPotentialRecipients on records without name
\* Records in one answer of the people and the users endpoint here.
MaxSorted == 2

\* A person and a directory user with an address and no displayName.
NamelessPerson ==
    [id |-> "p4", displayName |-> Undefined, scoredEmailAddresses |-> <<"m@w.com">>,
     department |-> Undefined, companyName |-> Undefined, jobTitle |-> Undefined]
NamelessUser ==
    [id |-> "d4", displayName |-> Undefined, mail |-> "n@w.com",
     userPrincipalName |-> Undefined, department |-> Undefined, jobTitle |-> Undefined]

\* A work account whose contacts, people and colleagues are answered; the
\* users request that follows fewer than five contacts is refused.
NameRequests ==
    {Request([profile |-> [status |-> 200, data |-> q], contacts |-> Ok(c),
              people |-> Ok(p), users |-> Fail(403)],
             [org |-> Ok(<<[id |-> "org1"]>>), colleagues |-> Ok(u)]) :
        q \in {x \in Profiles : AccountType(x) = "work"},
        c \in ListsUpTo(RawContacts, MaxRecords),
        p \in ListsUpTo(RawPeople \cup {NamelessPerson}, MaxSorted),
        u \in ListsUpTo(RawUsers \cup {NamelessUser}, MaxSorted)}

\* One call of getPotentialRecipients (contactsService.js:234-283).
GetPotentialRecipientsCall ==
    /\ pc = "idle"
    /\ ~sharing
    /\ req = NoReq
    /\ \E rq \in NameRequests :
          /\ req' = rq
          /\ apiOut' = GetPotentialRecipients(rq)
    /\ UNCHANGED <<recipientsCache, lastFetchTime, now, manualRecipients, resOut,
                   sharing>>
    /\ UNCHANGED exceptRes

\* The caller has its answer.
GetPotentialRecipientsReturns ==
    /\ ~sharing
    /\ req # NoReq
    /\ req' = NoReq
    /\ apiOut' = NotRun
    /\ UNCHANGED <<recipientsCache, lastFetchTime, now, manualRecipients, resOut,
                   sharing>>
    /\ UNCHANGED exceptRes

\* ---------------------------------------- getRecipients and a sign-out overlap
NoFetch == [active |-> FALSE, api |-> NotRun, at |-> 0]

InitRace ==
    /\ fetch = NoFetch
    /\ overtaken = FALSE
    /\ staleCache = FALSE

\* getRecipients up to its await (extension.js:516-525): the time is read, a
\* valid cache is returned, else getPotentialRecipients is called and awaited.
GetRecipientsBegins ==
    /\ pc = "idle"
    /\ ~sharing
    /\ ~fetch.active
    /\ sharing' = TRUE
    /\ IF CacheValid
       THEN /\ resOut' = [ok |-> TRUE, value |-> recipientsCache.value,
                          error |-> <<>>, fromCache |-> TRUE]
            /\ UNCHANGED fetch
       ELSE /\ \E a \in ContactSides, b \in ColleagueSides :
                 fetch' = [active |-> TRUE,
                           api |-> GetPotentialRecipients(Request(a, b)),
                           at |-> now]
            /\ UNCHANGED resOut
    /\ overtaken' = FALSE
    /\ UNCHANGED <<recipientsCache, lastFetchTime, now, manualRecipients, req, apiOut,
                   staleCache>>
    /\ UNCHANGED <<authVars, chatVars, pureVars, cbVars>>

\* GetRecipientsCompletes with a failed fetch stored as an empty set.
GetRecipientsCompletesStoring ==
    /\ fetch.active
    /\ fetch' = NoFetch
    /\ apiOut' = fetch.api
    /\ LET all == IF fetch.api.ok
                  THEN CombineWithManual(fetch.api.value, manualRecipients)
                  ELSE <<>>
       IN  /\ recipientsCache' = [set |-> TRUE, value |-> all]
           /\ lastFetchTime' = fetch.at
           /\ staleCache' = overtaken
           /\ resOut' = [ok |-> fetch.api.ok, value |-> all,
                         error |-> fetch.api.error, fromCache |-> FALSE]
    /\ overtaken' = FALSE
    /\ UNCHANGED <<now, manualRecipients, req, sharing>>
    /\ UNCHANGED <<authVars, chatVars, pureVars, cbVars>>

\* getRecipients after its await (extension.js:525-556): the manual addresses
\* are merged in, the result and the time read at the start are stored.
GetRecipientsCompletes ==
    /\ fetch.active
    /\ fetch' = NoFetch
    /\ apiOut' = fetch.api
    /\ IF fetch.api.ok
       THEN LET all == CombineWithManual(fetch.api.value, manualRecipients)
            IN  /\ recipientsCache' = [set |-> TRUE, value |-> all]
                /\ lastFetchTime' = fetch.at
                /\ staleCache' = overtaken
                /\ resOut' = [ok |-> TRUE, value |-> all, error |-> <<>>,
                              fromCache |-> FALSE]
       ELSE /\ resOut' = [ok |-> FALSE, value |-> <<>>, error |-> fetch.api.error,
                          fromCache |-> FALSE]
            /\ UNCHANGED <<recipientsCache, lastFetchTime, staleCache>>
    /\ overtaken' = FALSE
    /\ UNCHANGED <<now, manualRecipients, req, sharing>>
    /\ UNCHANGED <<authVars, chatVars, pureVars, cbVars>>

\* The sign-out command (extension.js:472-477) run between two share commands
\* or while a share command awaits getPotentialRecipients.
SignOutCommandAnytime ==
    /\ ~sharing \/ fetch.active
    /\ SignOut
    /\ recipientsCache' = NullCache
    /\ lastFetchTime' = 0
    /\ overtaken' = fetch.active
    /\ staleCache' = FALSE
    /\ UNCHANGED <<now, manualRecipients, req, apiOut, resOut, sharing, fetch>>
    /\ UNCHANGED <<chatVars, pureVars, cbVars>>

\* The clock reaches at most this many cache lifetimes.
MaxClock == 3

\* Half a cache lifetime passes.
Tick ==
    /\ now < CACHE_EXPIRY_MS * MaxClock
    /\ now' = now + (CACHE_EXPIRY_MS \div 2)
    /\ UNCHANGED <<recipientsCache, lastFetchTime, manualRecipients, req, apiOut,
                   resOut, sharing>>
    /\ UNCHANGED exceptRes

\* The share command ends once its getRecipients call has returned.
ShareCommandReturns ==
    /\ ~fetch.active
    /\ ShareCommandEnds

\* ------------------------------------------------------- the specifications
Init == InitAuth /\ InitRes /\ InitChat /\ InitPure /\ pending = 0 /\ InitRace

\* The authentication module and the sign-out command.
AuthStep ==
    \/ Initialize
    \/ Restart
    \/ GetAccessToken
    \/ GetSilentToken
    \/ ReturnSilentToken
    \/ OpenBrowser
    \/ StartListener
    \/ ListenerError
    \/ \E code \in CallbackCodes : CallbackRequest(code)
    \/ \E code \in CallbackCodes : OrphanCallback(code)
    \/ ExchangeCode

Next ==
    \/ AuthStep /\ UNCHANGED exceptAuth
    \/ SignOutCommand

Spec == Init /\ [][Next]_vars

\* The authentication module alone, with the awaited library calls returning:
\* acquireTokenSilent (authentication.js:76), getAuthCodeUrl and openExternal
\* (109-112), listen (270) and acquireTokenByCode (280) settle, so the step
\* after each of them is taken. Nothing makes a browser send the callback.
LibraryStep ==
    \/ GetSilentToken
    \/ ReturnSilentToken
    \/ OpenBrowser
    \/ StartListener
    \/ ExchangeCode

NextLive == AuthStep /\ UNCHANGED exceptAuth

SpecLive ==
    /\ Init
    /\ [][NextLive]_vars
    /\ WF_vars(LibraryStep /\ UNCHANGED exceptAuth)

\* The resolver, with the authentication module initialized and idle.
InitIdle ==
    /\ InitRes
    /\ InitChat
    /\ pending = 0
    /\ InitRace
    /\ pc = "idle"
    /\ memCache = EmptyCache
    /\ file = Absent
    /\ nextTok = 1
    /\ silentRes = NoRet
    /\ silentResp = NoResp
    /\ authCode = NoCode
    /\ exchErr = NoError
    /\ server = "none"
    /\ orphan = FALSE
    /\ closeCalls = 0
    /\ calls = NoCalls
    /\ ret = NoRet
    /\ shown = NoMessage
    /\ soStreak = 0
    /\ soFirst = NoSnap
    /\ soShown = <<>>
    /\ page = "none"

NextResolve ==
    \/ GetRecipients
    \/ AddManualRecipientCommand
    \/ ShareCommandEnds

InitResolve == InitIdle /\ InitPure

SpecResolve == InitResolve /\ [][NextResolve]_vars

\* The resolver and the commands that drop its cache (extension.js:472-506).
NextCache ==
    \/ GetRecipients
    \/ AddManualRecipientCommand
    \/ ShareCommandEnds
    \/ SignOutCommand

SpecCache == InitResolve /\ [][NextCache]_vars

\* The share command of the chat variant, the authentication module idle.
NextChat ==
    \/ ShareCommandChat
    \/ ShareCommandChatEnds

SpecChat == InitResolve /\ [][NextChat]_vars

\* getRecipients in two steps and the sign-out command at any time between.
NextRace ==
    \/ GetRecipientsBegins
    \/ GetRecipientsCompletes
    \/ SignOutCommandAnytime
    \/ ShareCommandReturns

SpecRace == InitResolve /\ [][NextRace]_vars

\* getRecipients in two steps while time passes.
NextExpiry ==
    \/ GetRecipientsBegins
    \/ GetRecipientsCompletes
    \/ ShareCommandReturns
    \/ Tick

SpecExpiry == InitResolve /\ [][NextExpiry]_vars

\* getPotentialRecipients called on answers with records that have no name.
NextNames ==
    \/ GetPotentialRecipientsCall
    \/ GetPotentialRecipientsReturns

SpecNames == InitResolve /\ [][NextNames]_vars

\* The authentication module with every request the callback server may get.
NextCallback ==
    \/ AuthStep /\ UNCHANGED exceptAuth
    \/ OtherPathRequest
    \/ \E code \in CallbackCodes : LateCallback(code)

SpecCallback == Init /\ [][NextCallback]_vars

\* The pure functions, each called once on arguments chosen at the start.
NextPure ==
    \/ CreateTeamsDeepLinkCall
    \/ FormatCodeSnippetCall

InitChosen == InitIdle /\ InitCalls

SpecPure == InitChosen /\ [][NextPure]_vars

\* =========================================================================
\* The claims
\* =========================================================================

\* ---- C1: the silent lookup never returns a token whose granted scopes do not
\* cover the required scope set; a narrower cached token is a miss.
C1_SilentTokenCoversRequired ==
    silentRes.token # NoToken => RequiredScopes \subseteq silentRes.scopes

\* ---- C2: the cache file equals the serialization of the in-memory cache (or
\* is absent when that is empty) whenever no operation is in progress; here the
\* clause of the claim about a successful silent acquisition with a cache file
\* on disk: what it changed in memory is in the file when getAccessToken has
\* returned.
DiskMatchesMemory ==
    \/ file = Serialize(memCache)
    \/ memCache = EmptyCache /\ file = Absent

C2_SilentAcquisitionFlushed ==
    (/\ pc = "idle" /\ ret.via = "silent" /\ silentResp.kind = "renewed"
     /\ file.kind = "json")
        => DiskMatchesMemory

\* ---- C3: the callback listener is closed on every exit path, so that no
\* listener is bound to port 3000 once the sign-in attempts have returned.
C3_NoListenerLeftBound ==
    pc = "idle" => ~orphan

\* ---- C7: signOut deletes the cache file also when enumerating or removing
\* an account raises: after signOut has returned the file is absent.
C7_SignOutDeletesFile ==
    soStreak >= 1 => file = Absent

\* ---- C8: signOut is idempotent: after two calls in a row there is no cached
\* account and no cache file, and the second call left the state as the first
\* call left it.
C8_SignOutIdempotent ==
    soStreak = 2 =>
        /\ memCache = EmptyCache
        /\ file = Absent
        /\ soFirst.mem = memCache
        /\ soFirst.file = file

\* ---- C9: when the silent acquisition fails with invalid_grant or
\* no_tokens_found, the cache file is deleted before the miss is reported: the
\* file is absent while the interactive flow runs.
C9_BadCacheCleared ==
    (/\ pc \in {"after_silent", "listen", "await_callback", "exchange"}
     /\ silentResp.error \in {"invalid_grant", "no_tokens_found"})
        => file = Absent

\* ---- C10: in one getAccessToken call the silent lookup runs exactly once and
\* first, the interactive flow (browser, listener, exchange) starts at most
\* once and only after the silent lookup missed, and a silent hit is returned
\* without browser or listener.
C10_SilentFirstInteractiveOnce ==
    /\ calls.silent <= 1 /\ calls.browser <= 1
    /\ calls.listen <= 1 /\ calls.exchange <= 1
    /\ (calls.browser > 0 \/ calls.listen > 0 \/ calls.exchange > 0 \/ server # "none")
          => (calls.silent = 1 /\ silentRes.token = NoToken)
    /\ (pc \in {"after_silent", "listen", "await_callback", "exchange"} \/ ret.via # "none")
          => calls.silent = 1
    /\ calls.listen > 0 => calls.browser = 1
    /\ calls.exchange > 0 => calls.listen = 1
    /\ ret.via = "silent"
          => (/\ ret = silentRes
              /\ calls.browser = 0 /\ calls.listen = 0 /\ calls.exchange = 0
              /\ server = "none")
    /\ ret.via = "interactive"
          => calls = [silent |-> 1, browser |-> 1, listen |-> 1, exchange |-> 1]

\* A call that missed silently and signed in interactively has returned.
C10_Witness ==
    /\ pc = "idle"
    /\ ret.via = "interactive"
    /\ silentRes = NullRet
    /\ calls = [silent |-> 1, browser |-> 1, listen |-> 1, exchange |-> 1]

\* ---- C4: no two recipients of a resolution have emails that are equal after
\* lowercasing, for getPotentialRecipients and for getRecipients with the
\* manual entries.
NoDuplicateEmails(seq) ==
    \A i, j \in 1..Len(seq) :
        i < j => ToLowerCase(seq[i].email) # ToLowerCase(seq[j].email)

C4_NoDuplicateEmails ==
    /\ NoDuplicateEmails(apiOut.value)
    /\ NoDuplicateEmails(resOut.value)
    /\ NoDuplicateEmails(recipientsCache.value)

HasEmail(seq, email) == \E i \in 1..Len(seq) : seq[i].email = email

\* A resolution whose contacts, colleagues and manual entries all carry the
\* same address, in different case, has returned it once.
C4_Witness ==
    /\ resOut.ok /\ ~resOut.fromCache
    /\ \E i \in 1..Len(req.contacts.value) :
          req.contacts.value[i].emailAddresses = <<"a@x.com">>
    /\ \E i \in 1..Len(req.colleagues.value) : req.colleagues.value[i].mail = "A@X.com"
    /\ InSeq("A@X.com", manualRecipients)
    /\ HasEmail(resOut.value, "A@X.com")

\* ---- C5: the rejection of one recipient source does not fail or cancel the
\* others and is not surfaced: the resolution returns what it returns when
\* that source answers with an empty list, and asks the same endpoints.
Rejected(resp) == resp.status \notin {0, 200}

C5_RejectedSourceIsEmpty ==
    /\ \A src \in {"contacts", "people", "users", "org", "colleagues"} :
          Rejected(req[src])
              => apiOut = GetPotentialRecipients([req EXCEPT ![src] = Ok(<<>>)])
    /\ (\E src \in {"contacts", "people", "users", "org", "colleagues"} : Rejected(req[src]))
          => (resOut.ok = apiOut.ok /\ (~resOut.ok => resOut.error = apiOut.error))

\* The contacts endpoint rejected, the people endpoint answered with one
\* person, and the resolution returned that person.
C5_Witness ==
    /\ Rejected(req.contacts)
    /\ req.people.status = 200 /\ Len(req.people.value) = 1
    /\ req.people.value[1].scoredEmailAddresses = <<"A@X.com">>
    /\ apiOut.ok /\ resOut.ok
    /\ HasEmail(resOut.value, "A@X.com")

\* ---- C6: when GET /me fails the resolution fails, whatever the other
\* sources return, with an authentication or authorization error for the
\* status 401 or 403.
AuthClassified(err) ==
    \/ err = <<"Authentication failed. Please sign out and sign in again.">>
    \/ err = <<"Permission denied. Your account may not have the necessary permissions. Make sure you authorized Contacts.Read permissions.">>

C6_ProfileFailureIsFatal ==
    Rejected(req.profile)
        => /\ ~resOut.ok
           /\ req.profile.status \in {401, 403} => AuthClassified(resOut.error)

\* ---- C11: a request on the callback path with a code is answered with the
\* success page and that very code goes to the exchange; one without a code is
\* answered with the failure page, the interactive step is rejected, nothing
\* is exchanged and getAccessToken returns null.
NoCodeMessage == ErrorMessage("Authentication failed: ", "No authorization code received")

C11_CallbackCodeOrRejection ==
    /\ [](/\ pc = "exchange" => (Truthy(authCode) /\ server = "closed")
          /\ calls.exchange > 0 => Truthy(authCode)
          /\ (pc = "idle" /\ shown = NoCodeMessage)
                => (ret = NullRet /\ calls.exchange = 0 /\ authCode = NoCode))
    /\ [][\A code \in CallbackCodes :
            CallbackRequest(code) =>
                IF Truthy(code)
                THEN page' = "success" /\ authCode' = code /\ pc' = "exchange"
                ELSE /\ page' = "failure" /\ shown' = NoCodeMessage
                     /\ pc' = "idle" /\ ret' = NullRet /\ calls'.exchange = 0]_vars

\* A callback request without code has been answered with the failure page and
\* the call has returned null without an exchange.
C11_Witness ==
    /\ pc = "idle" /\ page = "failure" /\ shown = NoCodeMessage
    /\ server = "closed" /\ ret = NullRet
    /\ calls = [silent |-> 1, browser |-> 1, listen |-> 1, exchange |-> 0]

\* ---- C12: a failed code exchange is classified as access_denied,
\* invalid_grant, consent_required or generic, and the message shown differs
\* between any two classes: the message shown for the failure that happened is
\* not the message shown for any failure of another class.
ShownFor(e) == ErrorMessage("Authentication failed: ", e.message)

C12_MessagePerClass ==
    (pc = "idle" /\ exchErr # NoError)
        => \A e \in ExchangeErrors \cup {NoTokenError} :
              e.class # exchErr.class => shown # ShownFor(e)

C14_SaveFailureNotFatal ==
    /\ [][(ExchangeCode /\ nextTok' # nextTok)
            => /\ pc' = "idle"
               /\ ret'.via = "interactive" /\ ret'.token = nextTok
               /\ \E a \in Accounts : memCache'[a].tok = ret'.token
               /\ shown' = shown /\ exchErr' = NoError]_vars
    /\ [][Initialize
            => memCache' = IF file.kind = "json" THEN Deserialize(file, EmptyCache)
                           ELSE EmptyCache]_vars
    /\ [][(GetSilentToken /\ AllAccounts(memCache) = <<>>)
            => silentRes' = NullRet]_vars

\* The first sign-in has returned its token although the cache file could not
\* be written.
C14_Witness ==
    /\ pc = "idle" /\ ret.via = "interactive" /\ ret.token # NoToken
    /\ file = Absent /\ memCache # EmptyCache
    /\ shown = NoMessage

C16_CorruptFileRemoved ==
    pc # "inactive" => file.kind # "corrupt"

\* ---- C17: merge priority between contacts and colleagues: when a contact and
\* a colleague have emails equal after lowercasing, the merged set holds exactly
\* one entry for that key and it is the colleague's.
SameKey(a, b) ==
    ~Falsy(a.email) /\ ~Falsy(b.email) /\ ToLowerCase(a.email) = ToLowerCase(b.email)

C17_ColleagueOverwritesContact ==
    apiOut.ok =>
        LET cs == OrEmpty(GetContacts(req))
            ls == OrEmpty(GetColleagues(req))
        IN  \A i \in 1..Len(cs), j \in 1..Len(ls) :
                (/\ SameKey(cs[i], ls[j])
                 /\ \A later \in (j + 1)..Len(ls) : ~SameKey(ls[later], ls[j]))
                => /\ Cardinality({k \in 1..Len(apiOut.value) :
                                      SameKey(apiOut.value[k], ls[j])}) = 1
                   /\ \E k \in 1..Len(apiOut.value) : apiOut.value[k] = ls[j]

\* The contact Zed of Sales with a@x.com and the colleague Ann of Eng with
\* A@X.com gave one entry, of Eng.
C17_Witness ==
    /\ apiOut.ok
    /\ \E i \in 1..Len(req.contacts.value) :
          /\ req.contacts.value[i].emailAddresses = <<"a@x.com">>
          /\ req.contacts.value[i].department = "Sales"
    /\ \E j \in 1..Len(req.colleagues.value) :
          /\ req.colleagues.value[j].mail = "A@X.com"
          /\ req.colleagues.value[j].department = "Eng"
    /\ Len(apiOut.value) = 1
    /\ apiOut.value[1].email = "A@X.com" /\ apiOut.value[1].department = "Eng"

\* ---- C18: the sources are merged in the order direct contacts, people,
\* directory users, keyed by lowercased email, the later source replacing the
\* earlier on a collision: a direct contact whose key a person of the people
\* endpoint carries too does not survive in the result.
C18_LaterSourceReplaces ==
    (apiOut.ok /\ req.people.status = 200)
        => LET direct == AddContacts(<<>>, req.contacts)
               people == MapPeople(SelectSeq(req.people.value, HasScoredAddresses))
           IN  \A i \in 1..Len(direct), j \in 1..Len(people) :
                   SameKey(direct[i], people[j])
                       => \A k \in 1..Len(apiOut.value) : apiOut.value[k] # direct[i]

\* ---- C19: a manual recipient whose lowercased email is that of an API
\* recipient never replaces or alters the API entry; a manual recipient with
\* an email no API source produced is in the result as an entry with isManual.
HasKey(seq, email) ==
    \E i \in 1..Len(seq) : ToLowerCase(seq[i].email) = ToLowerCase(email)

C19_ManualNeverOverwrites ==
    (resOut.ok /\ ~resOut.fromCache)
        => /\ \A i \in 1..Len(apiOut.value) :
                 /\ \E k \in 1..Len(resOut.value) : resOut.value[k] = apiOut.value[i]
                 /\ \A k \in 1..Len(resOut.value) :
                       SameKey(resOut.value[k], apiOut.value[i])
                           => resOut.value[k] = apiOut.value[i]
           /\ \A j \in 1..Len(manualRecipients) :
                 ~HasKey(apiOut.value, manualRecipients[j])
                     => \E k \in 1..Len(resOut.value) :
                           /\ resOut.value[k].email = manualRecipients[j]
                           /\ resOut.value[k].isManual
           /\ \A k \in 1..Len(resOut.value) :
                 resOut.value[k].isManual => ~HasKey(apiOut.value, resOut.value[k].email)

\* The manual address A@X.com met the contact Zed with a@x.com: the result is
\* Zed's entry alone.
C19_Witness ==
    /\ resOut.ok /\ ~resOut.fromCache
    /\ InSeq("A@X.com", manualRecipients)
    /\ Len(apiOut.value) = 1 /\ apiOut.value[1].email = "a@x.com"
    /\ resOut.value = apiOut.value
    /\ ~resOut.value[1].isManual /\ resOut.value[1].displayName = "Zed"

\* ---- C20: the recipient list handed to the caller, after the manual
\* recipients have been merged in, is in ascending order of display name: of
\* two adjacent entries the first does not compare after the second.
C20_FinalListSorted ==
    resOut.ok
        => \A k \in 1..(Len(resOut.value) - 1) :
              LocaleRank(resOut.value[k].displayName)
                  <= LocaleRank(resOut.value[k + 1].displayName)

\* ---- C21: partial failure end to end: the profile fetch succeeds, the
\* direct-contacts endpoint answers 403 and the people endpoint succeeds with
\* one entry; the resolution returns exactly that entry and raises no error.
\* As stated in the claim, whatever the other sources answer:
PartialFailureScenario ==
    /\ req.profile.status = 200
    /\ req.contacts.status = 403
    /\ req.people.status = 200 /\ Len(req.people.value) = 1

C21_PartialFailureAsStated ==
    PartialFailureScenario
        => /\ apiOut.ok /\ resOut.ok
           /\ Len(apiOut.value) = 1
           /\ apiOut.value[1].id = req.people.value[1].id

\* C21 with what the scenario leaves unsaid: the one person has an email
\* address, and neither the directory users nor the colleagues contribute a
\* record. Then the result is that person's entry alone.
NoDirectoryRecord ==
    /\ SelectSeq(req.users.value, HasMailOrUpn) = <<>>
    /\ SelectSeq(req.colleagues.value, HasMailOrUpn) = <<>>

C21_PartialFailureOnePerson ==
    (PartialFailureScenario /\ HasScoredAddresses(req.people.value[1]) /\ NoDirectoryRecord)
        => /\ apiOut.ok /\ resOut.ok
           /\ Len(apiOut.value) = 1
           /\ apiOut.value[1].id = req.people.value[1].id
           /\ apiOut.value[1].displayName = req.people.value[1].displayName
           /\ apiOut.value[1].email = req.people.value[1].scoredEmailAddresses[1]

\* A work account whose contacts endpoint answered 403, whose people endpoint
\* answered Amy and whose directory could not be listed got Amy alone.
C21_Witness ==
    /\ PartialFailureScenario /\ NoDirectoryRecord
    /\ AccountType(req.profile.data) = "work" /\ req.users.status = 403
    /\ apiOut.ok /\ Len(apiOut.value) = 1
    /\ apiOut.value[1].displayName = "Amy" /\ apiOut.value[1].email = "A@X.com"

\* ---- C22: when every recipient source fails or returns nothing (an empty
\* list included): with an email in the profile the resolution returns the
\* caller as the only recipient; without one it fails with the
\* no-contacts-found error.
EmptyAnswer(resp) == resp.status # 200 \/ resp.value = <<>>

EverySourceEmpty ==
    /\ req.profile.status = 200
    /\ EmptyAnswer(req.contacts) /\ EmptyAnswer(req.people) /\ EmptyAnswer(req.users)
    /\ EmptyAnswer(req.org) \/ EmptyAnswer(req.colleagues)

NoContactsFound ==
    <<"Failed to get contacts: ",
      "Could not find any contacts. Please check your permissions or try adding contacts manually.">>

OrganizationConfirmed == req.org.status = 200 /\ Len(req.org.value) > 0

C23_DirectoryOnlyAfterOrgLookup ==
    (apiOut.queried \cap {"users", "users2"} # {})
        => /\ OrganizationConfirmed
           /\ Len(AddPeople(AddContacts(<<>>, req.contacts), req.people))
                 < UsersFallbackThreshold

\* ---- C24: a record without a resolvable email is dropped and only that
\* record: every returned recipient has a non-empty email, and every record of
\* every answered source that has an email is among the returned recipients,
\* whatever email-less records the other sources hold.
EmailKeys(seq) ==
    {ToLowerCase(seq[i].email) : i \in {j \in 1..Len(seq) : ~Falsy(seq[j].email)}}

ResolvableKeys ==
    EmailKeys(MapContacts(SelectSeq(req.contacts.value, HasEmailAddresses)))
    \cup EmailKeys(MapPeople(SelectSeq(req.people.value, HasScoredAddresses)))
    \cup EmailKeys(MapUsers(SelectSeq(req.users.value, HasMailOrUpn)))
    \cup EmailKeys(MapUsers(SelectSeq(req.colleagues.value, HasMailOrUpn)))

C24_OnlyEmailLessDropped ==
    /\ apiOut.ok => \A i \in 1..Len(apiOut.value) : ~Falsy(apiOut.value[i].email)
    /\ (req.profile.status = 200 /\ ResolvableKeys # {})
           => apiOut.ok /\ ResolvableKeys \subseteq EmailKeys(apiOut.value)

\* ---- C25: the sign-out command and the add-recipient command (with an
\* address entered) leave the recipient cache dropped, it stays dropped until
\* the next getRecipients, and that getRecipients fetches afresh instead of
\* returning what was cached.
\* getRecipients is the only step that starts a share.
GetRecipientsStep == ~sharing /\ sharing'

C26_SendAuthorizationDistinct ==
    LET rq == chatReq.request
    IN  (rq.pick > 0 /\ rq.post.status \in AuthorizationStatuses)
            => /\ ~sendOut.ok
               /\ sendOut.error # SendMessage(rq.variant, Fail(500), Fail(500)).error

\* ---- C27: when sendMessage fails on a POST answered with a status other than
\* 401 and 403, the share command hands the deep link to openExternal.
C27_SendFailureFallsBack ==
    LET rq == chatReq.request
    IN  (rq.pick > 0 /\ ~sendOut.ok
         /\ rq.post.status \in GraphFailStatuses \ AuthorizationStatuses)
            => /\ Len(opened) > 0
               /\ opened[1][1] = "msteams://teams.microsoft.com/l/chat/0/0?message="

\* ---- C28: a 401 or 403 answer to the profile or the chats request of
\* getChats ends the call with the not-authorized error and without the axios
\* request; any other failure of getChats comes after the axios request and
\* carries another message.
FirstChatsStatus ==
    IF chatReq.request.me.status # 200 THEN chatReq.request.me.status
    ELSE chatReq.request.chats.status

C28_NotAuthorizedIsTerminal ==
    LET v == chatReq.request.variant
    IN  chatReq.request.token # NoToken
            => /\ FirstChatsStatus \in AuthorizationStatuses
                    => /\ ~chatsOut.ok /\ ~chatsOut.axios
                       /\ chatsOut.error = NotAuthorizedChats(v)
               /\ (~chatsOut.ok /\ FirstChatsStatus \notin AuthorizationStatuses)
                    => /\ chatsOut.axios
                       /\ chatsOut.error # NotAuthorizedChats(v)

C28_Witness ==
    /\ chatReq.request.variant = "part_000"
    /\ chatReq.request.me.status = 200
    /\ chatReq.request.chats.status = 403
    /\ ~chatsOut.ok /\ ~chatsOut.axios
    /\ chatsOut.error = NotAuthorizedChats("part_000")
    /\ said = <<PromptSaid(NotAuthorizedChats("part_000"))>>

\* ---- C29: one scope set: the silent lookup, the authorization URL and the
\* code exchange ask for the same scopes, the full required set, and the
\* exchange names the redirect URI of the authorization URL.
\* authentication.js:9-10: msalConfig.auth has no redirectUri.
RedirectUri == Undefined
\* authentication.js:105-108.
AuthCodeUrlParameters == [scopes |-> RequiredScopes, redirectUri |-> RedirectUri]
\* authentication.js:280-284.
TokenRequest == [scopes |-> RequiredScopes, redirectUri |-> RedirectUri]
\* authentication.js:71-74.
SilentRequest == [scopes |-> SilentScopes]

C29_OneScopeSet ==
    /\ (calls.silent > 0 /\ silentResp.kind # "none")
           => SilentRequest.scopes = AuthCodeUrlParameters.scopes
    /\ calls.exchange > 0
           => /\ TokenRequest.scopes = AuthCodeUrlParameters.scopes
              /\ TokenRequest.redirectUri = AuthCodeUrlParameters.redirectUri

\* ---- C30: a getAccessToken call whose library calls return comes back or
\* waits for the callback; the wait is ended by a request on the callback path
\* or by an error of the listener and by nothing else (no timer, no
\* cancellation), and a call whose wait has ended comes back.
C30_ReturnsUnlessSuspended ==
    /\ (pc \in {"silent", "after_silent", "listen"})
           ~> (pc = "idle" \/ pc = "await_callback")
    /\ (pc = "exchange") ~> (pc = "idle")
    /\ [][(pc = "await_callback" /\ pc' # "await_callback")
              => /\ server' \in {"closed", "leaked"}
                 /\ pc' \in {"exchange", "idle"}]_vars

C30_Witness ==
    /\ pc = "idle"
    /\ calls.listen > 0 /\ calls.exchange > 0
    /\ server = "closed"
    /\ ret.token # NoToken

\* ---- C31: createTeamsDeepLink returns, for every list of emails and every
\* content, a link whose users parameter decodes to the comma-joined list and
\* whose message parameter decodes to the content.
C31_DeepLinkRoundTrip ==
    linkOut.called
        => /\ linkOut.ok
           /\ linkOut.url[1] = UsersPrefix
           /\ DecodeURIComponent(UsersParameter(linkOut.url)) = Join(linkReq.emails, ",")
           /\ DecodeURIComponent(MessageParameter(linkOut.url)) = linkReq.content

\* ---- C32: formatCodeSnippet returns the fence followed by the language
\* identifier, a line break, the text as given, a line break and the fence;
\* without a language the opening fence carries no identifier.
C32_FencedBlock ==
    fmtOut # NoFormat
        => /\ Len(fmtOut) = 6
           /\ fmtOut[1] = Fence /\ fmtOut[6] = Fence
           /\ fmtOut[2] = (IF fmtReq.languageId = Undefined THEN "" ELSE fmtReq.languageId)
           /\ fmtOut[3] = LineBreak /\ fmtOut[5] = LineBreak
           /\ fmtOut[4] = fmtReq.text

C32_Witness ==
    /\ fmtReq.languageId = Undefined /\ fmtReq.text = "a b"
    /\ fmtOut = <<Fence, "", LineBreak, "a b", LineBreak, Fence>>

\* ---- C33: once the authorization URL has been handed to the browser and
\* the call waits for the callback, the listener is bound to the port.
C33_ListenerBoundWhenBrowserOpened ==
    (calls.browser > 0 /\ pc \in {"listen", "await_callback"}) => server = "listening"

\* ---- C34: the first request on the callback path decides the interactive
\* step: a request on another path changes neither the listener nor the call;
\* the first callback request resolves the call with its code or rejects it;
\* and a later request changes neither the code nor what the call returned.
OtherPathStep == pending' # pending
FirstCallbackStep == pc = "await_callback" /\ server' = "closed"
LateCallbackStep == pc # "await_callback" /\ closeCalls' = closeCalls + 1

C34_FirstCallbackDecides ==
    [][/\ OtherPathStep => UNCHANGED <<pc, server, authCode, ret, shown, page>>
       /\ FirstCallbackStep
              => \/ pc' = "exchange" /\ Truthy(authCode') /\ page' = "success"
                 \/ pc' = "idle" /\ ret' = NullRet /\ page' = "failure"
       /\ LateCallbackStep => UNCHANGED <<pc, server, authCode, ret, shown>>
       /\ (pc = "exchange" /\ pc' = "exchange") => authCode' = authCode]_vars

C34_Witness ==
    /\ pc = "exchange" /\ authCode = "abc"
    /\ closeCalls = 2 /\ page = "failure"
    /\ pending = 1

\* ---- C35: no getRecipients call is served from the cache a set that was
\* fetched by a call begun before a sign-out that has completed since.
C35_NoSetFromBeforeSignOut ==
    (resOut.ok /\ resOut.fromCache) => ~staleCache

\* ---- C36: a getRecipients call made while a set is cached and less than ten
\* minutes after the start of the fetch that stored it returns that set
\* without asking Graph; a call made ten minutes or more after it fetches
\* afresh; a successful fetch stores the time at which its call started.
BeginsStep == ~sharing /\ sharing'
CompletesStep == fetch.active /\ ~fetch'.active

C36_CacheByFreshness ==
    [][/\ BeginsStep
            => IF recipientsCache.set /\ now - lastFetchTime < 10 * 60 * 1000
               THEN /\ resOut'.ok /\ resOut'.fromCache
                    /\ resOut'.value = recipientsCache.value
                    /\ ~fetch'.active
                    /\ UNCHANGED <<recipientsCache, lastFetchTime, apiOut>>
               ELSE /\ fetch'.active /\ fetch'.at = now
                    /\ ~resOut'.fromCache
       /\ (CompletesStep /\ resOut'.ok)
            => /\ lastFetchTime' = fetch.at
               /\ recipientsCache'.set /\ recipientsCache'.value = resOut'.value]_vars

C36_Witness ==
    /\ sharing /\ resOut.ok /\ resOut.fromCache
    /\ now - lastFetchTime = CACHE_EXPIRY_MS \div 2

\* ---- C37: when the fetch inside getRecipients fails, the call returns the
\* error of getPotentialRecipients and leaves the cached set and the time of
\* the last fetch as they were.
C37_FailedFetchKeepsCache ==
    [][(CompletesStep /\ ~fetch.api.ok)
          => /\ ~resOut'.ok
             /\ resOut'.error = fetch.api.error
             /\ UNCHANGED <<recipientsCache, lastFetchTime>>]_vars

C37_Witness ==
    /\ sharing /\ ~fetch.active /\ ~resOut.ok /\ ~apiOut.ok
    /\ recipientsCache.set
    /\ now - lastFetchTime >= CACHE_EXPIRY_MS

\* ---- C38: in one sendMessage call the axios POST is made only when the
\* first POST was not answered with success, the call returns the answer of
\* the POST that succeeded, and it raises only when both POSTs failed.
C38_PostedOnceAndReturned ==
    LET rq == chatReq.request
    IN  rq.pick > 0
            => /\ sendOut.axios => rq.post.status # 200
               /\ sendOut.ok
                    => sendOut.value = IF rq.post.status = 200 THEN rq.post.value
                                       ELSE rq.axPost.value
               /\ ~sendOut.ok => (rq.post.status # 200 /\ rq.axPost.status # 200)

\* ---- C39: a record with an email and no display name does not make
\* getPotentialRecipients fail: the sort by display name raises for no
\* combination of records, and every recipient returned has a display name.
C39_NamelessRecordResolves ==
    req # NoReq
        => /\ apiOut.ok
                => \A i \in 1..Len(apiOut.value) :
                       apiOut.value[i].displayName # Undefined
           /\ ~apiOut.ok
                => apiOut.error[2] # "Cannot read properties of undefined (reading 'localeCompare')"

=============================================================================
